---- MODULE Spec2Model ----
(***************************************************************************)
(* Score-and-ranking core of the Solana memory card game:                  *)
(*   src/src/lib/api.ts         LeaderboardManager (the repository)        *)
(*   src/src/lib/tournament.ts  TournamentManager  (the lifecycle manager) *)
(*   src/src/lib/solana.ts      makePayment        (the payment capability)*)
(* The two localStorage keys are the persistent store.  A JavaScript       *)
(* function body runs to completion; the only suspension point of the core *)
(* is the await of makePayment inside enterTournament, so enterTournament  *)
(* is two steps (up to the await, and from the await on) and every other   *)
(* operation is one step.                                                  *)
(***************************************************************************)
EXTENDS Integers, Sequences, FiniteSets, TLC

VARIABLES
    lsLeaderboard,   \* localStorage[LEADERBOARD_STORAGE_KEY]
    lsTournaments,   \* localStorage[TOURNAMENTS_STORAGE_KEY]
    now,             \* the wall clock read by new Date()
    tCount,          \* number of tournament ids uuidv4() has handed out
    eCount,          \* number of entry ids uuidv4() has handed out
    calls,           \* the enterTournament invocations made so far, in call order
    created,         \* what the latest createTournament call returned
    session,         \* the game page: its React state, refs and queued callbacks
    server,          \* the presale server: its module variables and its last response
    game             \* the standalone game: its script variables, board and storage

vars == <<lsLeaderboard, lsTournaments, now, tCount, eCount, calls, created, session,
         server, game>>

----------------------------------------------------------------------------
(* Bounds of the model *)

MaxTournaments == 1     \* tournaments created in one run
MaxEntries     == 3     \* scores submitted in one run of the leaderboard alone
MaxScored      == 1     \* scores submitted in one run of every operation
MaxCalls       == 2     \* enterTournament invocations in one run
MaxTime        == 1     \* clock ticks in one run
MaxRanked      == 3     \* scores submitted in one run of the ranking queries
MaxLifeScores  == 4     \* scores submitted in one run of a tournament's life
MaxLateTournaments == 2 \* tournaments created in one run of the reconciliation
MaxLateTime    == 2     \* clock ticks in one run of the reconciliation
MaxSeeded      == 6     \* tournaments created in one run of the bootstrap
MaxRounds      == 2     \* initializeGame invocations in one run of the game page

(* Inputs *)

Wallets      == {"w1", "w2"}           \* wallet.publicKey.toString()
NoKey        == "null"                 \* wallet.publicKey of a disconnected wallet
FeeInputs    == {-1, 2}                \* entryFee arguments, in units of 0.01 SOL
Scores       == {1, 2}
Difficulties == {"easy"}
PaymentOutcomes == {"paid", "failed", "threw"}
Moves        == {6}
Seconds      == {30}
Names        == {"Cup"}
Windows      == {<<0, 1>>, <<1, 2>>, <<1, 1>>, <<2, 1>>}   \* <<startTime, endTime>> arguments
TournamentIds == 1..MaxTournaments     \* uuids are numbered in creation order
RankScores   == {0, 100, 150, 200}    \* score arguments read by the ranking queries
RankDifficulties == {"easy", "hard"}
RankTournamentIds == {1}               \* tournamentId arguments of the ranked scores
SessionDifficulties == {"easy", "medium"}   \* choices made in the difficulty Select
SessionWallets == {"w1"}               \* the wallet the player of the game page connects
Undefined    == 0                      \* an absent tournamentId (falsy, no uuid)

----------------------------------------------------------------------------
(* Values and their JSON round trip *)

Date(n)    == <<"Date", n>>            \* a Date object
Iso(n)     == <<"iso", n>>             \* the ISO string JSON.stringify writes for it
TimeOf(d)  == d[2]                     \* Date.valueOf / Date.parse
NewDate(d) == Date(TimeOf(d))          \* new Date(x), x a Date or an ISO string
ToJSON(d)  == Iso(TimeOf(d))           \* a Date becomes its ISO string, a string stays

\* JSON.parse(JSON.stringify(entry)): date is a string afterwards; a
\* tournamentId that is undefined is dropped and reads back as undefined.
EntryJSON(e) == [e EXCEPT !.date = ToJSON(@)]

EntriesJSON(es) == [i \in DOMAIN es |-> EntryJSON(es[i])]

TournamentJSON(t) ==
    [t EXCEPT !.startTime = ToJSON(@), !.endTime = ToJSON(@),
              !.winners = EntriesJSON(@)]

TournamentsJSON(ts) == [i \in DOMAIN ts |-> TournamentJSON(ts[i])]

NoItem     == [kind |-> "null", value |-> <<>>]    \* getItem returns null
Item(v)    == [kind |-> "json", value |-> v]       \* getItem returns a JSON text
Damaged(v) == [kind |-> "corrupt", value |-> v]    \* getItem returns what is left of
                                                   \* the JSON text of v: JSON.parse throws

----------------------------------------------------------------------------
(* Array helpers *)

Includes(s, x) == \E i \in DOMAIN s : s[i] = x

\* Array.prototype.findIndex on id, 1-based; 0 stands for -1 / undefined
FindIndex(ts, id) ==
    IF \E i \in DOMAIN ts : ts[i].id = id
    THEN CHOOSE i \in DOMAIN ts : ts[i].id = id /\ \A j \in 1..(i-1) : ts[j].id # id
    ELSE 0

Slice3(s) == SubSeq(s, 1, IF Len(s) < 3 THEN Len(s) ELSE 3)

\* Array.prototype.findIndex, given the set of the positions that pass its
\* test: the first of them, 1-based; 0 stands for -1
FirstIndex(passing) ==
    IF passing = {} THEN 0
    ELSE CHOOSE i \in passing : \A j \in passing : i <= j

\* Math.max(...entries.map(entry => entry.score)) of a non-empty array
MathMax(s) ==
    CHOOSE m \in {s[i].score : i \in DOMAIN s} : \A i \in DOMAIN s : s[i].score <= m

\* Array.prototype.sort((a, b) => b.score - a.score): descending by score, and
\* stable (ECMAScript 2019): an element goes behind every element already
\* placed whose score is not smaller.
\* the sort as it would be if it put an element ahead of the elements already
\* placed that have its score
RECURSIVE InsertByScoreTiesFirst(_, _)
InsertByScoreTiesFirst(s, e) ==
    IF s = <<>> THEN <<e>>
    ELSE IF s[1].score > e.score THEN <<s[1]>> \o InsertByScoreTiesFirst(Tail(s), e)
    ELSE <<e>> \o s

RECURSIVE InsertByScore(_, _)
InsertByScore(s, e) ==
    IF s = <<>> THEN <<e>>
    ELSE IF s[1].score >= e.score THEN <<s[1]>> \o InsertByScore(Tail(s), e)
    ELSE <<e>> \o s

RECURSIVE SortByScore(_)
SortByScore(s) ==
    IF s = <<>> THEN <<>>
    ELSE InsertByScore(SortByScore(SubSeq(s, 1, Len(s) - 1)), s[Len(s)])

----------------------------------------------------------------------------
(* LeaderboardManager (src/src/lib/api.ts).  Each operation is an operator  *)
(* from the stored item (and its arguments) to the item it leaves behind    *)
(* and what it returns.  writeOk is whether localStorage.setItem succeeds   *)
(* (it throws when the quota is exceeded or storage is disabled).           *)

\* getLeaderboard as it would be if it returned what can be made out of a
\* damaged text
getLeaderboardSalvages(lb) == IF lb.kind = "null" THEN <<>> ELSE lb.value

\* getLeaderboard(): [] for an absent item and, by its catch, for a text that
\* JSON.parse rejects
getLeaderboard(lb) ==
    IF lb.kind = "null" THEN <<>>
    ELSE IF lb.kind = "corrupt" THEN <<>>
    ELSE lb.value

NewEntry(id, playerWallet, score, difficulty, moves, time, tournamentId, clock) ==
    [id |-> id, playerWallet |-> playerWallet, score |-> score,
     difficulty |-> difficulty, moves |-> moves, time |-> time,
     date |-> Date(clock), tournamentId |-> tournamentId]

\* addScore as it would be if it emptied the key before writing it again, so
\* that a failed write left nothing behind
addScoreClearsFirst(lb, entry, writeOk) ==
    LET leaderboard == SortByScore(Append(getLeaderboard(lb), entry))
    IN  IF writeOk
        THEN [store |-> Item(EntriesJSON(leaderboard)), threw |-> FALSE]
        ELSE [store |-> NoItem, threw |-> TRUE]

\* addScore as it would be if a score submitted with the arguments of a stored
\* entry were taken for a repeated submission and not stored again
addScoreDedup(lb, entry, writeOk) ==
    LET stored == getLeaderboard(lb)
        same(e) == [e EXCEPT !.id = entry.id, !.date = entry.date] = entry
        leaderboard == IF \E i \in DOMAIN stored : same(stored[i])
                       THEN stored
                       ELSE SortByScore(Append(stored, entry))
    IN  IF writeOk
        THEN [store |-> Item(EntriesJSON(leaderboard)), threw |-> FALSE]
        ELSE [store |-> lb, threw |-> TRUE]

\* [store, threw]: threw is TRUE when the call raises the write's error
addScore(lb, entry, writeOk) ==
    LET leaderboard == SortByScore(Append(getLeaderboard(lb), entry))
    IN  IF writeOk
        THEN [store |-> Item(EntriesJSON(leaderboard)), threw |-> FALSE]
        ELSE [store |-> lb, threw |-> TRUE]

\* getLeaderboardByDifficulty as it would be without the !entry.tournamentId test
getLeaderboardByDifficultyAll(lb, difficulty) ==
    SortByScore(SelectSeq(getLeaderboard(lb), LAMBDA e : e.difficulty = difficulty))

\* !entry.tournamentId holds of the absent (undefined) tournamentId only: the
\* ids of tournaments are non-empty uuid strings
getLeaderboardByDifficulty(lb, difficulty) ==
    SortByScore(SelectSeq(getLeaderboard(lb),
                          LAMBDA e : e.difficulty = difficulty
                                     /\ e.tournamentId = Undefined))

\* getPlayerBestScore as it would be if tournament scores counted
getPlayerBestScoreAnyBoard(lb, playerWallet, difficulty) ==
    LET playerEntries == SelectSeq(getLeaderboard(lb),
                                   LAMBDA e : e.playerWallet = playerWallet
                                              /\ e.difficulty = difficulty)
    IN  IF Len(playerEntries) = 0 THEN 0 ELSE MathMax(playerEntries)

getPlayerBestScore(lb, playerWallet, difficulty) ==
    LET playerEntries == SelectSeq(getLeaderboard(lb),
                                   LAMBDA e : e.playerWallet = playerWallet
                                              /\ e.difficulty = difficulty
                                              /\ e.tournamentId = Undefined)
    IN  IF Len(playerEntries) = 0 THEN 0 ELSE MathMax(playerEntries)

getPlayerRank(lb, playerWallet, difficulty) ==
    LET leaderboard == getLeaderboardByDifficulty(lb, difficulty)
        bestPlayerScore == getPlayerBestScore(lb, playerWallet, difficulty)
    IN  IF bestPlayerScore = 0 THEN 0
        ELSE FirstIndex({i \in DOMAIN leaderboard :
                            /\ leaderboard[i].playerWallet = playerWallet
                            /\ leaderboard[i].score = bestPlayerScore})

getTournamentLeaderboard(lb, tournamentId) ==
    SortByScore(SelectSeq(getLeaderboard(lb),
                          LAMBDA e : e.tournamentId = tournamentId))

\* getPlayerTournamentRank as it would be if it returned the 0-based position
getPlayerTournamentRankZeroBased(lb, playerWallet, tournamentId) ==
    LET tournamentLeaderboard == getTournamentLeaderboard(lb, tournamentId)
        position == FirstIndex({i \in DOMAIN tournamentLeaderboard :
                                   tournamentLeaderboard[i].playerWallet = playerWallet})
    IN  IF position # 0 THEN position - 1 ELSE 0

getPlayerTournamentRank(lb, playerWallet, tournamentId) ==
    LET tournamentLeaderboard == getTournamentLeaderboard(lb, tournamentId)
    IN  FirstIndex({i \in DOMAIN tournamentLeaderboard :
                       tournamentLeaderboard[i].playerWallet = playerWallet})

getTournaments(ts) ==
    IF ts.kind = "null" THEN <<>>
    ELSE IF ts.kind = "corrupt" THEN <<>>
    ELSE [i \in DOMAIN ts.value |->
            [ts.value[i] EXCEPT !.startTime = NewDate(@), !.endTime = NewDate(@)]]

Null == "null"

\* getActiveTournamentByDifficulty(difficulty): the first stored tournament of
\* the difficulty that is active, or null
getActiveTournamentByDifficulty(ts, difficulty) ==
    LET tournaments == getTournaments(ts)
        found == {i \in DOMAIN tournaments :
                    tournaments[i].difficulty = difficulty /\ tournaments[i].status = "active"}
    IN  IF found = {} THEN Null ELSE tournaments[FirstIndex(found)]

\* LeaderboardManager.createTournament: [store, threw]
repoCreateTournament(ts, id, name, entryFee, startTime, endTime, status, difficulty, writeOk) ==
    LET tournament == [id |-> id, name |-> name, status |-> status,
                       startTime |-> startTime, endTime |-> endTime,
                       entryFee |-> entryFee, prizePool |-> 0,
                       participants |-> <<>>, difficulty |-> difficulty,
                       winners |-> <<>>]
        tournaments == Append(getTournaments(ts), tournament)
    IN  IF writeOk
        THEN [store |-> Item(TournamentsJSON(tournaments)), threw |-> FALSE]
        ELSE [store |-> ts, threw |-> TRUE]

\* joinTournament as it would be without the participants.includes check
joinTournamentNoIncludes(ts, tournamentId, playerWallet, entryFee, writeOk) ==
    LET tournaments == getTournaments(ts)
        i == FindIndex(tournaments, tournamentId)
    IN  IF i = 0 THEN [store |-> ts, ret |-> FALSE]
        ELSE IF ~writeOk THEN [store |-> ts, ret |-> FALSE]
        ELSE [store |-> Item(TournamentsJSON(
                          [tournaments EXCEPT
                              ![i].participants = Append(@, playerWallet),
                              ![i].prizePool = @ + entryFee])),
              ret |-> TRUE]

\* joinTournament as it would be if it added the wallet without crediting the
\* prizePool
joinTournamentSkipsCredit(ts, tournamentId, playerWallet, entryFee, writeOk) ==
    LET tournaments == getTournaments(ts)
        i == FindIndex(tournaments, tournamentId)
    IN  IF i = 0 THEN [store |-> ts, ret |-> FALSE]
        ELSE IF Includes(tournaments[i].participants, playerWallet)
        THEN [store |-> ts, ret |-> TRUE]
        ELSE IF ~writeOk THEN [store |-> ts, ret |-> FALSE]
        ELSE [store |-> Item(TournamentsJSON(
                          [tournaments EXCEPT
                              ![i].participants = Append(@, playerWallet)])),
              ret |-> TRUE]

\* joinTournament as it would be with prizePool = entryFee for prizePool += entryFee
joinTournamentAssignsFee(ts, tournamentId, playerWallet, entryFee, writeOk) ==
    LET tournaments == getTournaments(ts)
        i == FindIndex(tournaments, tournamentId)
    IN  IF i = 0 THEN [store |-> ts, ret |-> FALSE]
        ELSE IF Includes(tournaments[i].participants, playerWallet)
        THEN [store |-> ts, ret |-> TRUE]
        ELSE IF ~writeOk THEN [store |-> ts, ret |-> FALSE]
        ELSE [store |-> Item(TournamentsJSON(
                          [tournaments EXCEPT
                              ![i].participants = Append(@, playerWallet),
                              ![i].prizePool = entryFee])),
              ret |-> TRUE]

\* [store, ret]
joinTournament(ts, tournamentId, playerWallet, entryFee, writeOk) ==
    LET tournaments == getTournaments(ts)
        i == FindIndex(tournaments, tournamentId)
    IN  IF i = 0 THEN [store |-> ts, ret |-> FALSE]
        ELSE IF Includes(tournaments[i].participants, playerWallet)
        THEN [store |-> ts, ret |-> TRUE]
        ELSE IF ~writeOk THEN [store |-> ts, ret |-> FALSE]
        ELSE [store |-> Item(TournamentsJSON(
                          [tournaments EXCEPT
                              ![i].participants = Append(@, playerWallet),
                              ![i].prizePool = @ + entryFee])),
              ret |-> TRUE]

----------------------------------------------------------------------------
(* TournamentManager (src/src/lib/tournament.ts) *)

StatusAt(clock, startTime, endTime) ==
    IF clock >= TimeOf(startTime) /\ clock < TimeOf(endTime) THEN "active"
    ELSE IF clock >= TimeOf(endTime) THEN "completed"
    ELSE "upcoming"

\* createTournament as it would be if every tournament started out upcoming
createTournamentAlwaysUpcoming(ts, id, name, entryFee, startTime, endTime, difficulty, clock, writeOk) ==
    IF entryFee < 0 THEN [store |-> ts, created |-> FALSE]
    ELSE IF TimeOf(startTime) >= TimeOf(endTime) THEN [store |-> ts, created |-> FALSE]
    ELSE LET r == repoCreateTournament(ts, id, name, entryFee, startTime, endTime,
                                       "upcoming", difficulty, writeOk)
         IN  [store |-> r.store, created |-> ~r.threw]

\* createTournament as it would be without the two checks of its arguments
createTournamentUnchecked(ts, id, name, entryFee, startTime, endTime, difficulty, clock, writeOk) ==
    LET r == repoCreateTournament(ts, id, name, entryFee, startTime, endTime,
                                  StatusAt(clock, startTime, endTime),
                                  difficulty, writeOk)
    IN  [store |-> r.store, created |-> ~r.threw]

\* [store, created]: created is FALSE when the call returns null
createTournament(ts, id, name, entryFee, startTime, endTime, difficulty, clock, writeOk) ==
    IF entryFee < 0 THEN [store |-> ts, created |-> FALSE]
    ELSE IF TimeOf(startTime) >= TimeOf(endTime) THEN [store |-> ts, created |-> FALSE]
    ELSE LET r == repoCreateTournament(ts, id, name, entryFee, startTime, endTime,
                                       StatusAt(clock, startTime, endTime),
                                       difficulty, writeOk)
         IN  [store |-> r.store, created |-> ~r.threw]

\* endTournament as it would be if completing a tournament emptied its prizePool
endTournamentPaysOut(ts, lb, tournamentId, writeOk) ==
    LET tournaments == getTournaments(ts)
        i == FindIndex(tournaments, tournamentId)
    IN  IF i = 0 THEN [store |-> ts, ended |-> FALSE]
        ELSE IF ~writeOk THEN [store |-> ts, ended |-> FALSE]
        ELSE [store |-> Item(TournamentsJSON(
                          [tournaments EXCEPT
                              ![i].status = "completed",
                              ![i].prizePool = 0,
                              ![i].winners = Slice3(getTournamentLeaderboard(lb, tournamentId))])),
              ended |-> TRUE]

\* endTournament as it would be if it kept the whole tournament leaderboard
\* as winners
endTournamentKeepsAll(ts, lb, tournamentId, writeOk) ==
    LET tournaments == getTournaments(ts)
        i == FindIndex(tournaments, tournamentId)
    IN  IF i = 0 THEN [store |-> ts, ended |-> FALSE]
        ELSE IF ~writeOk THEN [store |-> ts, ended |-> FALSE]
        ELSE [store |-> Item(TournamentsJSON(
                          [tournaments EXCEPT
                              ![i].status = "completed",
                              ![i].winners = getTournamentLeaderboard(lb, tournamentId)])),
              ended |-> TRUE]

\* endTournament as it would be if it refused a tournament that is not active
endTournamentOnlyActive(ts, lb, tournamentId, writeOk) ==
    LET tournaments == getTournaments(ts)
        i == FindIndex(tournaments, tournamentId)
    IN  IF i = 0 THEN [store |-> ts, ended |-> FALSE]
        ELSE IF tournaments[i].status # "active" THEN [store |-> ts, ended |-> FALSE]
        ELSE IF ~writeOk THEN [store |-> ts, ended |-> FALSE]
        ELSE [store |-> Item(TournamentsJSON(
                          [tournaments EXCEPT
                              ![i].status = "completed",
                              ![i].winners = Slice3(getTournamentLeaderboard(lb, tournamentId))])),
              ended |-> TRUE]

\* [store, ended]: ended is FALSE when the call returns null
endTournament(ts, lb, tournamentId, writeOk) ==
    LET tournaments == getTournaments(ts)
        i == FindIndex(tournaments, tournamentId)
    IN  IF i = 0 THEN [store |-> ts, ended |-> FALSE]
        ELSE IF ~writeOk THEN [store |-> ts, ended |-> FALSE]
        ELSE [store |-> Item(TournamentsJSON(
                          [tournaments EXCEPT
                              ![i].status = "completed",
                              ![i].winners = Slice3(getTournamentLeaderboard(lb, tournamentId))])),
              ended |-> TRUE]

\* the forEach body as it would be if it kept the whole tournament leaderboard
\* as winners
UpdateStatusKeepsAll(t, lb, clock) ==
    LET t1 == IF t.status = "upcoming" /\ clock >= TimeOf(NewDate(t.startTime))
                                       /\ clock < TimeOf(NewDate(t.endTime))
              THEN [t EXCEPT !.status = "active"] ELSE t
    IN  IF t1.status = "active" /\ clock >= TimeOf(NewDate(t1.endTime))
        THEN [t1 EXCEPT !.status = "completed",
                        !.winners = getTournamentLeaderboard(lb, t1.id)]
        ELSE t1

\* the forEach body as it would be if it set the status the clock gives,
\* whatever the stored status
UpdateStatusFromClock(t, lb, clock) ==
    LET status == StatusAt(clock, NewDate(t.startTime), NewDate(t.endTime))
    IN  IF status = t.status THEN t
        ELSE IF status = "completed"
        THEN [t EXCEPT !.status = "completed",
                       !.winners = Slice3(getTournamentLeaderboard(lb, t.id))]
        ELSE [t EXCEPT !.status = status]

\* One pass of the forEach body of checkAndUpdateTournaments over a tournament
UpdateStatus(t, lb, clock) ==
    LET t1 == IF t.status = "upcoming" /\ clock >= TimeOf(NewDate(t.startTime))
                                       /\ clock < TimeOf(NewDate(t.endTime))
              THEN [t EXCEPT !.status = "active"] ELSE t
    IN  IF t1.status = "active" /\ clock >= TimeOf(NewDate(t1.endTime))
        THEN [t1 EXCEPT !.status = "completed",
                        !.winners = Slice3(getTournamentLeaderboard(lb, t1.id))]
        ELSE t1

\* checkAndUpdateTournaments as it would be if it saved after every scan
checkAndUpdateWritesAlways(ts, lb, clock) == TRUE

\* the updated flag after the scan: whether setItem is called
checkAndUpdateWrites(ts, lb, clock) ==
    LET tournaments == getTournaments(ts)
        scanned == [i \in DOMAIN tournaments |-> UpdateStatus(tournaments[i], lb, clock)]
    IN  \E i \in DOMAIN tournaments : scanned[i] # tournaments[i]

\* the store it leaves behind (it returns nothing and swallows a failed write)
checkAndUpdateTournaments(ts, lb, clock, writeOk) ==
    LET tournaments == getTournaments(ts)
        scanned == [i \in DOMAIN tournaments |-> UpdateStatus(tournaments[i], lb, clock)]
        updated == checkAndUpdateWrites(ts, lb, clock)
    IN  IF updated /\ writeOk THEN Item(TournamentsJSON(scanned)) ELSE ts

\* The starter set of initializeTournaments: fees in units of 0.01 SOL
\* (0.01, 0.1, 0.9), lengths in days, the unit of the clock
SeedTournaments ==
    << [name |-> "Easy Tournament",   entryFee |-> 1,  days |-> 1, difficulty |-> "easy"],
       [name |-> "Medium Tournament", entryFee |-> 10, days |-> 3, difficulty |-> "medium"],
       [name |-> "Hard Tournament",   entryFee |-> 90, days |-> 7, difficulty |-> "hard"] >>

\* the createTournament call of initializeTournaments for the k-th of the
\* starter set, n tournaments having been given an id before
SeedCall(ts, n, k, clock, writeOk) ==
    createTournament(ts, n + 1, SeedTournaments[k].name, SeedTournaments[k].entryFee,
                     Date(clock), Date(clock + SeedTournaments[k].days),
                     SeedTournaments[k].difficulty, clock, writeOk)

\* the three calls in a row: [store, made, last], made the number of
\* tournaments created and last whether the third call created one
SeedAll(ts, nextId, clock, oks) ==
    LET r1 == SeedCall(ts, nextId, 1, clock, oks[1])
        n1 == IF r1.created THEN nextId + 1 ELSE nextId
        r2 == SeedCall(r1.store, n1, 2, clock, oks[2])
        n2 == IF r2.created THEN n1 + 1 ELSE n1
        r3 == SeedCall(r2.store, n2, 3, clock, oks[3])
        n3 == IF r3.created THEN n2 + 1 ELSE n2
    IN  [store |-> r3.store, made |-> n3 - nextId, called |-> TRUE, last |-> r3.created]

\* initializeTournaments as it would be without the test for existing tournaments
initializeTournamentsAlways(ts, nextId, clock, oks) == SeedAll(ts, nextId, clock, oks)

\* [store, made, called, last]: called is whether createTournament was called.
\* oks are the outcomes of the writes of the three createTournament calls; a
\* call whose write throws returns null and the next call is made.
initializeTournaments(ts, nextId, clock, oks) ==
    IF Len(getTournaments(ts)) = 0
    THEN SeedAll(ts, nextId, clock, oks)
    ELSE [store |-> ts, made |-> 0, called |-> FALSE, last |-> FALSE]

\* The percentages are held in tenths of a percent (19.9 is 199) and an amount
\* in thousandths of the unit of prizePool, so that
\* (prizePool * percentage) / 100 is exact.
PrizeScale == 1000

\* the table as it would be with 29.9 for 19.9
PrizeDistributionOverHundred ==
    << [rank |-> 1, percentage |-> 500],
       [rank |-> 2, percentage |-> 300],
       [rank |-> 3, percentage |-> 299] >>

DEFAULT_PRIZE_DISTRIBUTION ==
    << [rank |-> 1, percentage |-> 500],
       [rank |-> 2, percentage |-> 300],
       [rank |-> 3, percentage |-> 199] >>

\* calculatePrizeDistribution as it would be if it emptied the prizePool it
\* has distributed
calculatePrizeDistributionPaysOut(ts, tournamentId) ==
    LET tournaments == getTournaments(ts)
        i == FindIndex(tournaments, tournamentId)
    IN  IF i = 0 THEN [store |-> ts, prizes |-> <<>>]
        ELSE [store |-> Item(TournamentsJSON([tournaments EXCEPT ![i].prizePool = 0])),
              prizes |-> [k \in DOMAIN DEFAULT_PRIZE_DISTRIBUTION |->
                            [rank |-> DEFAULT_PRIZE_DISTRIBUTION[k].rank,
                             percentage |-> DEFAULT_PRIZE_DISTRIBUTION[k].percentage,
                             amount |-> tournaments[i].prizePool
                                            * DEFAULT_PRIZE_DISTRIBUTION[k].percentage]]]

\* [store, prizes]: it reads the stored tournaments and writes nothing
calculatePrizeDistribution(ts, tournamentId) ==
    LET tournaments == getTournaments(ts)
        i == FindIndex(tournaments, tournamentId)
    IN  IF i = 0 THEN [store |-> ts, prizes |-> <<>>]
        ELSE [store |-> ts,
              prizes |-> [k \in DOMAIN DEFAULT_PRIZE_DISTRIBUTION |->
                            [rank |-> DEFAULT_PRIZE_DISTRIBUTION[k].rank,
                             percentage |-> DEFAULT_PRIZE_DISTRIBUTION[k].percentage,
                             amount |-> tournaments[i].prizePool
                                            * DEFAULT_PRIZE_DISTRIBUTION[k].percentage]]]

\* enterTournament as it would be without the already-a-participant return
EnterCallNoMemberCheck(ts, wallet, tournamentId) ==
    LET tournaments == getTournaments(ts)
        i == FindIndex(tournaments, tournamentId)
        returns(b) == [wallet |-> wallet, tid |-> tournamentId, fee |-> 0,
                       pc |-> "done", payment |-> "none", result |-> b]
    IN  IF wallet = NoKey THEN [store |-> ts, call |-> returns(FALSE)]
        ELSE IF i = 0 THEN [store |-> ts, call |-> returns(FALSE)]
        ELSE IF tournaments[i].status # "active"
        THEN [store |-> ts, call |-> returns(FALSE)]
        ELSE [store |-> ts,
              call |-> [wallet |-> wallet, tid |-> tournamentId,
                        fee |-> tournaments[i].entryFee,
                        pc |-> "paying", payment |-> "pending", result |-> FALSE]]

\* enterTournament as it would be without the status check
EnterCallNoStatusCheck(ts, wallet, tournamentId) ==
    LET tournaments == getTournaments(ts)
        i == FindIndex(tournaments, tournamentId)
        returns(b) == [wallet |-> wallet, tid |-> tournamentId, fee |-> 0,
                       pc |-> "done", payment |-> "none", result |-> b]
    IN  IF wallet = NoKey THEN [store |-> ts, call |-> returns(FALSE)]
        ELSE IF i = 0 THEN [store |-> ts, call |-> returns(FALSE)]
        ELSE IF Includes(tournaments[i].participants, wallet)
        THEN [store |-> ts, call |-> returns(TRUE)]
        ELSE [store |-> ts,
              call |-> [wallet |-> wallet, tid |-> tournamentId,
                        fee |-> tournaments[i].entryFee,
                        pc |-> "paying", payment |-> "pending", result |-> FALSE]]

\* enterTournament as it would be if it joined the tournament first and
\* awaited the payment afterwards
EnterCallJoinsFirst(ts, wallet, tournamentId) ==
    LET tournaments == getTournaments(ts)
        i == FindIndex(tournaments, tournamentId)
        returns(b) == [wallet |-> wallet, tid |-> tournamentId, fee |-> 0,
                       pc |-> "done", payment |-> "none", result |-> b]
    IN  IF wallet = NoKey THEN [store |-> ts, call |-> returns(FALSE)]
        ELSE IF i = 0 THEN [store |-> ts, call |-> returns(FALSE)]
        ELSE IF tournaments[i].status # "active"
        THEN [store |-> ts, call |-> returns(FALSE)]
        ELSE IF Includes(tournaments[i].participants, wallet)
        THEN [store |-> ts, call |-> returns(TRUE)]
        ELSE [store |-> joinTournament(ts, tournamentId, wallet,
                                       tournaments[i].entryFee, TRUE).store,
              call |-> [wallet |-> wallet, tid |-> tournamentId,
                        fee |-> tournaments[i].entryFee,
                        pc |-> "paying", payment |-> "pending", result |-> FALSE]]

\* enterTournament up to its return or its await of makePayment: [store, call].
\* call is the invocation's record: its arguments, the entryFee it read, where
\* it stands ("paying": suspended at the await; "done": returned), how its
\* payment went ("none": makePayment was not invoked) and what it returned.
EnterCall(ts, wallet, tournamentId) ==
    LET tournaments == getTournaments(ts)
        i == FindIndex(tournaments, tournamentId)
        returns(b) == [wallet |-> wallet, tid |-> tournamentId, fee |-> 0,
                       pc |-> "done", payment |-> "none", result |-> b]
    IN  IF wallet = NoKey THEN [store |-> ts, call |-> returns(FALSE)]
        ELSE IF i = 0 THEN [store |-> ts, call |-> returns(FALSE)]
        ELSE IF tournaments[i].status # "active"
        THEN [store |-> ts, call |-> returns(FALSE)]
        ELSE IF Includes(tournaments[i].participants, wallet)
        THEN [store |-> ts, call |-> returns(TRUE)]
        ELSE [store |-> ts,
              call |-> [wallet |-> wallet, tid |-> tournamentId,
                        fee |-> tournaments[i].entryFee,
                        pc |-> "paying", payment |-> "pending", result |-> FALSE]]

\* enterTournament as it would be if only a rejected payment stopped it and
\* the value makePayment resolves to were not looked at
EnterResumeIgnoresPaid(ts, call, outcome, writeOk) ==
    IF outcome = "threw"
    THEN [store |-> ts,
          call |-> [call EXCEPT !.pc = "done", !.payment = outcome, !.result = FALSE]]
    ELSE LET r == joinTournament(ts, call.tid, call.wallet, call.fee, writeOk)
         IN  [store |-> r.store,
              call |-> [call EXCEPT !.pc = "done", !.payment = outcome, !.result = r.ret]]

\* enterTournament from the await on: [store, call]
\* outcome is how the awaited makePayment promise settles: it resolves to true
\* ("paid"), resolves to false ("failed": confirmation error, signing rejected,
\* cancelled, timed out -- makePayment's catch), or rejects ("threw").
EnterResume(ts, call, outcome, writeOk) ==
    IF outcome # "paid"
    THEN [store |-> ts,
          call |-> [call EXCEPT !.pc = "done", !.payment = outcome, !.result = FALSE]]
    ELSE LET r == joinTournament(ts, call.tid, call.wallet, call.fee, writeOk)
         IN  [store |-> r.store,
              call |-> [call EXCEPT !.pc = "done", !.payment = "paid", !.result = r.ret]]

\* enterTournament of unnamed/part_005 from the await on: [store, call]. It
\* awaits makePayment inside a try of its own and does not look at the value
\* the promise resolves to; only a rejection stops it.
EnterResumePart005(ts, call, outcome, writeOk) ==
    IF outcome = "threw"
    THEN [store |-> ts,
          call |-> [call EXCEPT !.pc = "done", !.payment = outcome, !.result = FALSE]]
    ELSE LET r == joinTournament(ts, call.tid, call.wallet, call.fee, writeOk)
         IN  [store |-> r.store,
              call |-> [call EXCEPT !.pc = "done", !.payment = outcome, !.result = r.ret]]

\* enterTournament from the await up to joinTournament's read of the store,
\* as one tab runs it while another tab shares the store: the call's record.
\* A call that goes on to write holds what it read (read) and stands at
\* "writing"; wrote says whether the call got as far as setItem.
EnterResumeReadsNoIncludes(ts, call, outcome) ==
    LET tournaments == getTournaments(ts)
        i == FindIndex(tournaments, call.tid)
        returns(b) == [wallet |-> call.wallet, tid |-> call.tid, fee |-> call.fee,
                       pc |-> "done", payment |-> outcome, result |-> b,
                       wrote |-> FALSE]
    IN  IF outcome # "paid" THEN returns(FALSE)
        ELSE IF i = 0 THEN returns(FALSE)
        ELSE [wallet |-> call.wallet, tid |-> call.tid, fee |-> call.fee,
              pc |-> "writing", payment |-> outcome, result |-> FALSE,
              read |-> tournaments]

EnterResumeReads(ts, call, outcome) ==
    LET tournaments == getTournaments(ts)
        i == FindIndex(tournaments, call.tid)
        returns(b) == [wallet |-> call.wallet, tid |-> call.tid, fee |-> call.fee,
                       pc |-> "done", payment |-> outcome, result |-> b,
                       wrote |-> FALSE]
    IN  IF outcome # "paid" THEN returns(FALSE)
        ELSE IF i = 0 THEN returns(FALSE)
        ELSE IF Includes(tournaments[i].participants, call.wallet) THEN returns(TRUE)
        ELSE [wallet |-> call.wallet, tid |-> call.tid, fee |-> call.fee,
              pc |-> "writing", payment |-> outcome, result |-> FALSE,
              read |-> tournaments]

\* joinTournament's setItem and enterTournament's return, in a call that has
\* read the store: [store, call]. The whole collection is replaced by the one
\* the call read, with the wallet and the fee added.
EnterResumeWrites(ts, call, writeOk) ==
    LET i == FindIndex(call.read, call.tid)
        returns(b) == [wallet |-> call.wallet, tid |-> call.tid, fee |-> call.fee,
                       pc |-> "done", payment |-> call.payment, result |-> b,
                       wrote |-> TRUE]
    IN  IF ~writeOk THEN [store |-> ts, call |-> returns(FALSE)]
        ELSE [store |-> Item(TournamentsJSON(
                          [call.read EXCEPT
                              ![i].participants = Append(@, call.wallet),
                              ![i].prizePool = @ + call.fee])),
              call |-> returns(TRUE)]

----------------------------------------------------------------------------
(* The game page (pages/Index.tsx) *)

\* getActiveTournaments(): the stored tournaments whose status is 'active'
getActiveTournaments(ts) == SelectSeq(getTournaments(ts), LAMBDA t : t.status = "active")

DIFFICULTY_SETTINGS ==
    [easy   |-> [cardPairs |-> 6,  timeLimit |-> 120],
     medium |-> [cardPairs |-> 8,  timeLimit |-> 180],
     hard   |-> [cardPairs |-> 12, timeLimit |-> 240]]

\* Math.max(0, n)
AtLeastZero(n) == IF n > 0 THEN n ELSE 0

calculateScore(difficulty, time, moveCount) ==
    LET config == DIFFICULTY_SETTINGS[difficulty]
        baseScore == config.cardPairs * 100
        timeBonus == AtLeastZero(config.timeLimit - time) * 10
        moveBonus == AtLeastZero(config.cardPairs * 3 - moveCount) * 50
    IN  baseScore + timeBonus + moveBonus

\* The page before its mount effect has run. connected is publicKey.toString() of the connected
\* wallet (NoKey: none); timer says timer.current holds a running interval,
\* leaked that an interval runs whose handle timer.current no longer holds;
\* timeUp that a setTimeout(() => endGame(false), 0) is queued; flip holds the
\* pending final-match callback (the closure of the render it was made in),
\* the one flipTimeout.current refers to; awaiting the enterTournament calls
\* initializeGame invocations are suspended on. round, roundMode, fired, saved
\* and lastSave are history: the number of initializeGame invocations, the mode
\* the latest one was made in, the callbacks that called endGame since, the
\* addScore calls endGame made since, and the latest of them.
InitialSession ==
    [mounted |-> FALSE,
     connected |-> NoKey, isTournamentMode |-> FALSE, selectedTournament |-> Undefined,
     activeTournaments |-> <<>>, difficulty |-> "medium",
     gameActive |-> FALSE, gameOverRef |-> FALSE, dialog |-> FALSE,
     timer |-> FALSE, leaked |-> FALSE, timeUp |-> FALSE, flip |-> <<>>,
     awaiting |-> {}, round |-> 0, roundMode |-> FALSE, fired |-> {},
     saved |-> 0, lastSave |-> <<>>, toast |-> "none"]

\* what a callback made in the current render sees of the page
Closure(s, moves, time) ==
    [connected |-> s.connected, isTournamentMode |-> s.isTournamentMode,
     selectedTournament |-> s.selectedTournament, difficulty |-> s.difficulty,
     moves |-> moves, time |-> time]

\* endGame as it would be without the gameOverRef guard
endGameUnguarded(s, lb, id, won, c, clock, writeOk) ==
    LET over == [s EXCEPT !.gameOverRef = TRUE, !.timer = FALSE,
                          !.gameActive = FALSE, !.dialog = TRUE]
        computedScore == calculateScore(c.difficulty, c.time, c.moves)
        tournamentId == IF c.isTournamentMode THEN c.selectedTournament ELSE Undefined
        entry == NewEntry(id, c.connected, computedScore, c.difficulty, c.moves,
                          c.time, tournamentId, clock)
        r == addScore(lb, entry, writeOk)
        call == [won |-> won, finished |-> s.gameOverRef, playerWallet |-> c.connected,
                 tournamentId |-> tournamentId, roundMode |-> s.roundMode]
    IN  IF ~won THEN [session |-> over, store |-> lb, stored |-> FALSE]
        ELSE IF c.connected = NoKey
        THEN [session |-> [over EXCEPT !.toast = "connect"], store |-> lb, stored |-> FALSE]
        ELSE [session |-> [over EXCEPT !.saved = @ + 1, !.lastSave = <<call>>,
                                       !.toast = IF r.threw THEN "failed" ELSE "recorded"],
              store |-> r.store, stored |-> ~r.threw]

\* endGame(won, finalTimeOverride) run in closure c: [session, store, stored]
endGame(s, lb, id, won, c, clock, writeOk) ==
    IF s.gameOverRef THEN [session |-> s, store |-> lb, stored |-> FALSE]
    ELSE LET over == [s EXCEPT !.gameOverRef = TRUE, !.timer = FALSE,
                               !.gameActive = FALSE, !.dialog = TRUE]
             computedScore == calculateScore(c.difficulty, c.time, c.moves)
             tournamentId == IF c.isTournamentMode THEN c.selectedTournament ELSE Undefined
             entry == NewEntry(id, c.connected, computedScore, c.difficulty, c.moves,
                               c.time, tournamentId, clock)
             r == addScore(lb, entry, writeOk)
             call == [won |-> won, finished |-> s.gameOverRef, playerWallet |-> c.connected,
                      tournamentId |-> tournamentId, roundMode |-> s.roundMode]
         IN  IF ~won THEN [session |-> over, store |-> lb, stored |-> FALSE]
             ELSE IF c.connected = NoKey
             THEN [session |-> [over EXCEPT !.toast = "connect"], store |-> lb, stored |-> FALSE]
             ELSE [session |-> [over EXCEPT !.saved = @ + 1, !.lastSave = <<call>>,
                                            !.toast = IF r.threw THEN "failed" ELSE "recorded"],
                   store |-> r.store, stored |-> ~r.threw]

\* initializeGame up to its test of the mode: the timers it clears, the state
\* it resets
initializeGameResets(s) ==
    [s EXCEPT !.timer = FALSE, !.flip = <<>>, !.dialog = FALSE, !.gameOverRef = FALSE,
              !.round = @ + 1, !.roundMode = s.isTournamentMode, !.fired = {},
              !.saved = 0, !.toast = "none"]

\* initializeGame from the dealing of the cards on: the round is active and a
\* new interval replaces the handle in timer.current
initializeGameStarts(s) ==
    [s EXCEPT !.gameActive = TRUE, !.leaked = s.leaked \/ s.timer, !.timer = TRUE]

----------------------------------------------------------------------------
(* The presale server (src/server.js, lines 1-218): an Express application  *)
(* whose store is the two module arrays purchases and claims.  Every route  *)
(* handler is synchronous but GET /tiers, whose await comes before any read *)
(* of the store, so every request is one step.                              *)

MaxPurchases == 2       \* purchases recorded in one run of the presale server

\* A JavaScript number: an integer, or NaN
Num(n) == [nan |-> FALSE, n |-> n]
NaN    == [nan |-> TRUE, n |-> 0]

\* a + b
Plus(a, b) == IF a.nan \/ b.nan THEN NaN ELSE Num(a.n + b.n)

\* a * b
Times(a, b) == IF a.nan \/ b.nan THEN NaN ELSE Num(a.n * b.n)

\* a > b (false when either side is NaN)
Greater(a, b) == ~a.nan /\ ~b.nan /\ a.n > b.n

\* a <= b (false when either side is NaN)
AtMost(a, b) == ~a.nan /\ ~b.nan /\ a.n <= b.n

\* A value of a parsed JSON body: a number, a string, or an absent property
JNumber(n) == [type |-> "number", n |-> n, s |-> ""]
JString(s) == [type |-> "string", n |-> 0, s |-> s]
Absent     == [type |-> "undefined", n |-> 0, s |-> ""]

\* !v
Falsy(v) ==
    \/ v.type = "undefined"
    \/ (v.type = "number" /\ v.n = 0)
    \/ (v.type = "string" /\ v.s = "")

\* The decimal texts the requests of the model carry
DecimalTexts == <<"0", "1", "2", "3", "4", "5", "6", "7", "8", "9">>

\* String(n) of an integer
Decimal(n) ==
    IF n < 0 THEN "-" \o DecimalTexts[(-n) + 1] ELSE DecimalTexts[n + 1]

\* Number(v): a number is itself, the empty text is 0, a decimal text is its
\* value, every other text is NaN
Number(v) ==
    IF v.type = "number" THEN Num(v.n)
    ELSE IF v.type = "undefined" THEN NaN
    ELSE IF v.s = "" THEN Num(0)
    ELSE IF \E d \in DOMAIN DecimalTexts : DecimalTexts[d] = v.s
         THEN Num((CHOOSE d \in DOMAIN DecimalTexts : DecimalTexts[d] = v.s) - 1)
         ELSE NaN

\* String(v) of a body value, and of a JavaScript number
String(v) == IF v.type = "string" THEN v.s ELSE Decimal(v.n)
NumberText(a) == IF a.nan THEN "NaN" ELSE Decimal(a.n)

\* presale_tiers.json as loadTiers parses it: a list of tiers
TierFile ==
    << [tier |-> 1, max_tokens |-> Num(2), price_usdc |-> Num(1)],
       [tier |-> 2, max_tokens |-> Num(2), price_usdc |-> Num(2)] >>

\* loadTiers(): the parsed file, or [] when reading or parsing it throws
loadTiers(readOk) == IF readOk THEN TierFile ELSE <<>>

\* The request bodies and parameters of the model
ServerWallets == {"a", "b"}
BuyAmounts    == {Absent, JNumber(1), JNumber(-1), JString("2"), JString("abc")}

\* No response sent yet; the shape of every response record
NoResponse ==
    [route |-> "none", wallet |-> "", status |-> 0, canClaim |-> FALSE, total |-> ""]
Response(route, wallet, status) ==
    [route |-> route, wallet |-> wallet, status |-> status, canClaim |-> FALSE,
     total |-> ""]

\* The process before the start-up function has run. currentTierIndex counts
\* from 0 as in the source; response is the latest response sent.
InitialServer ==
    [ listening        |-> FALSE,
      purchases        |-> <<>>,
      claims           |-> <<>>,
      presaleTiers     |-> <<>>,
      currentTierIndex |-> 0,
      response         |-> NoResponse ]

\* purchases.filter(p => p.wallet === wallet), as the indices it keeps
userPurchases(purchases, wallet) ==
    {i \in DOMAIN purchases : purchases[i].wallet = wallet}

\* list.reduce((total, p) => total + p.amount, 0) over the purchases at the
\* indices kept, in index order
RECURSIVE SumAmounts(_, _, _)
SumAmounts(purchases, kept, i) ==
    IF i = 0 THEN Num(0)
    ELSE IF i \in kept
         THEN Plus(SumAmounts(purchases, kept, i - 1), purchases[i].amount)
         ELSE SumAmounts(purchases, kept, i - 1)

\* calculateTotalRaised()
calculateTotalRaised(purchases) ==
    SumAmounts(purchases, DOMAIN purchases, Len(purchases))

\* the total of a wallet's purchases, as both claim routes compute it
totalTokens(purchases, wallet) ==
    SumAmounts(purchases, userPurchases(purchases, wallet), Len(purchases))

\* userPurchases.some(p => p.claimed)
anyClaimed(purchases, wallet) ==
    \E i \in userPurchases(purchases, wallet) : purchases[i].claimed

\* the loop of updateCurrentTier from tier i (counted from 0) on
RECURSIVE TierFrom(_, _, _, _)
TierFrom(tiers, totalRaised, raisedSoFar, i) ==
    IF i >= Len(tiers) THEN Len(tiers) - 1
    ELSE IF Greater(Plus(raisedSoFar, tiers[i + 1].max_tokens), totalRaised)
         THEN i
         ELSE TierFrom(tiers, totalRaised, Plus(raisedSoFar, tiers[i + 1].max_tokens),
                       i + 1)

\* updateCurrentTier(): the new currentTierIndex
updateCurrentTier(sv) ==
    TierFrom(sv.presaleTiers, calculateTotalRaised(sv.purchases), Num(0), 0)

\* the body of GET /can-claim/:wallet
canClaimBody(purchases, wallet) ==
    LET total == totalTokens(purchases, wallet)
    IN  [ canClaim |-> Greater(total, Num(0)) /\ ~anyClaimed(purchases, wallet),
          total    |-> IF Greater(total, Num(0)) THEN NumberText(total) ELSE "" ]

\* the test totalTokens <= 0 of POST /claim
claimRejectsTotal(total) == AtMost(total, Num(0))

\* the handler of POST /claim: the server after the request
claimHandler(sv, wallet, signature) ==
    IF wallet = "" \/ Falsy(signature)
    THEN [sv EXCEPT !.response = Response("claim", wallet, 400)]
    ELSE IF anyClaimed(sv.purchases, wallet)
    THEN [sv EXCEPT !.response = Response("claim", wallet, 400)]
    ELSE IF claimRejectsTotal(totalTokens(sv.purchases, wallet))
    THEN [sv EXCEPT !.response = Response("claim", wallet, 400)]
    ELSE [sv EXCEPT
            !.purchases = [i \in DOMAIN sv.purchases |->
                             IF i \in userPurchases(sv.purchases, wallet)
                             THEN [sv.purchases[i] EXCEPT !.claimed = TRUE]
                             ELSE sv.purchases[i]],
            !.claims = Append(sv.claims,
                              [ id |-> Len(sv.claims) + 1,
                                wallet |-> wallet,
                                total_tokens |-> totalTokens(sv.purchases, wallet),
                                transaction_signature |-> signature.s,
                                timestamp |-> now ]),
            !.response = Response("claim", wallet, 200)]

\* the handler of POST /buy: the server after the request. With no tier at
\* currentTierIndex the read of currentTier.price_usdc throws and Express
\* answers 500.
buyHandler(sv, wallet, amount, token, signature) ==
    IF wallet = "" \/ Falsy(amount) \/ Falsy(token) \/ Falsy(signature)
    THEN [sv EXCEPT !.response = Response("buy", wallet, 400)]
    ELSE LET index == updateCurrentTier(sv)
         IN  IF index < 0
             THEN [sv EXCEPT !.currentTierIndex = index,
                             !.response = Response("buy", wallet, 500)]
             ELSE LET currentTier == sv.presaleTiers[index + 1]
                      purchase ==
                          [ id |-> Len(sv.purchases) + 1,
                            wallet |-> wallet,
                            token |-> token.s,
                            amount |-> Number(amount),
                            total |-> String(amount),
                            fee |-> NumberText(Times(Number(amount),
                                                     currentTier.price_usdc)),
                            tier |-> currentTier.tier,
                            transaction_signature |-> signature.s,
                            timestamp |-> now,
                            claimed |-> FALSE ]
                 IN  [sv EXCEPT !.currentTierIndex = index,
                                !.purchases = Append(sv.purchases, purchase),
                                !.response = Response("buy", wallet, 200)]


----------------------------------------------------------------------------
(* The standalone game (src/server.js, lines 219-644): one script whose     *)
(* state is its closure variables, the board's elements and localStorage.   *)
(* Every handler runs to completion; the flip-back of a mismatch is a       *)
(* setTimeout callback that reads the closure variables when it runs.       *)

MaxGames     == 2       \* startGame invocations in one run of the standalone game
MaxMoves     == 3       \* pair attempts in one game of the standalone game
MaxFlipBacks == 2       \* flip-back timeouts pending at once

\* firstCardIndex === null; the cards of the board are numbered from 1
NullIndex == 0

\* The number of images of a card set
ImagesInSet(setName) == IF setName = "both" THEN 16 ELSE 8

\* getImageList(setName, pairs): the image of each pair, cycling through the set
getImageList(setName, pairs) ==
    [i \in 1..pairs |-> ((i - 1) % ImagesInSet(setName)) + 1]

\* The cards startGame builds before shuffling: two of each image
BuiltCards(images) ==
    [k \in 1..(2 * Len(images)) |-> [image |-> images[(k + 1) \div 2], matched |-> FALSE]]

\* shuffle(array): every order of the array is a possible outcome
Shuffles(array) ==
    LET n == Len(array)
        orders == {o \in [1..n -> 1..n] : \A a, b \in 1..n : o[a] = o[b] => a = b}
    IN  {[k \in 1..n |-> array[o[k]]] : o \in orders}

\* The pair counts the difficulty options offer (small ones), the tournament
\* the page creates when none is stored (its id and its difficulty, which is
\* 8 in the source and the larger pair count here), and the texts typed into
\* the wallet input
PairCounts        == {1, 2}
DefaultTournament == [id |-> "default", difficulty |-> 2]
WalletTexts       == {" w1"}

\* text.trim()
trim(text) == IF text = " w1" THEN "w1" ELSE text

\* The script after it has run and before DOMContentLoaded. flipped is the
\* set of card elements carrying the class 'flipped'; timerId says the
\* display interval runs; flipBacks counts the pending flip-back timeouts;
\* scores, storedWallet and storedTournaments are the three localStorage
\* keys. games and ended are history: the startGame invocations so far and
\* the endGame invocations since the latest of them.
InitialGame ==
    [ loaded               |-> FALSE,
      cards                |-> <<>>,
      flipped              |-> {},
      firstCardIndex       |-> NullIndex,
      secondCardIndex      |-> NullIndex,
      moves                |-> 0,
      matches              |-> 0,
      totalPairs           |-> 0,
      timerId              |-> FALSE,
      startTimestamp       |-> 0,
      lockBoard            |-> FALSE,
      playerWallet         |-> "",
      selectedTournamentId |-> "",
      difficulty           |-> 1,
      setName              |-> "set1",
      flipBacks            |-> 0,
      scores               |-> NoItem,
      storedWallet         |-> "",
      storedTournaments    |-> <<>>,
      games                |-> 0,
      ended                |-> 0 ]

\* the parse of a stored array: [] for null and for text JSON.parse rejects
parseScores(item) == IF item.kind = "json" THEN item.value ELSE <<>>

\* saveScore(entry): the stored value after it; a setItem that throws is
\* caught and leaves the key as it was
saveScore(item, entry, writeOk) ==
    IF writeOk THEN Item(Append(parseScores(item), entry)) ELSE item

\* resetSelection()
resetSelection(g) ==
    [g EXCEPT !.firstCardIndex = NullIndex,
              !.secondCardIndex = NullIndex,
              !.lockBoard = FALSE]

\* endGame() of the script, at clock time clock
gameEndGame(g, clock, writeOk) ==
    LET elapsedSeconds == clock - g.startTimestamp
        entry == [ pairs |-> g.totalPairs,
                   moves |-> g.moves,
                   time |-> elapsedSeconds,
                   date |-> clock,
                   wallet |-> g.playerWallet,
                   tournamentId |-> IF g.selectedTournamentId = ""
                                    THEN Null ELSE g.selectedTournamentId ]
    IN  [g EXCEPT !.timerId = FALSE,
                  !.scores = saveScore(g.scores, entry, writeOk),
                  !.ended = @ + 1]

\* onCardClick from the flip of the element on: the first selection, or the
\* second with its comparison
flipCard(g, index, clock, writeOk) ==
    LET shown == [g EXCEPT !.flipped = @ \cup {index}]
    IN  IF g.firstCardIndex = NullIndex
        THEN [shown EXCEPT !.firstCardIndex = index]
        ELSE LET second == [shown EXCEPT !.secondCardIndex = index,
                                         !.lockBoard = TRUE,
                                         !.moves = @ + 1]
             IN  IF g.cards[g.firstCardIndex].image = g.cards[index].image
                 THEN LET matched ==
                              resetSelection(
                                [second EXCEPT
                                   !.cards[g.firstCardIndex].matched = TRUE,
                                   !.cards[index].matched = TRUE,
                                   !.matches = @ + 1])
                      IN  IF matched.matches = matched.totalPairs
                          THEN gameEndGame(matched, clock, writeOk)
                          ELSE matched
                 ELSE [second EXCEPT !.flipBacks = @ + 1]

\* onCardClick without the test of lockBoard
onCardClickIgnoresLock(g, index, clock, writeOk) ==
    IF g.cards[index].matched THEN g
    ELSE IF index = g.firstCardIndex THEN g
    ELSE flipCard(g, index, clock, writeOk)

\* onCardClick without the test of card.matched
onCardClickIgnoresMatched(g, index, clock, writeOk) ==
    IF g.lockBoard THEN g
    ELSE IF index = g.firstCardIndex THEN g
    ELSE flipCard(g, index, clock, writeOk)

\* onCardClick(event) on the card element of the given index, at clock time
\* clock: the game after the handler
onCardClick(g, index, clock, writeOk) ==
    IF g.lockBoard \/ g.cards[index].matched THEN g
    ELSE IF index = g.firstCardIndex THEN g
    ELSE flipCard(g, index, clock, writeOk)

\* the callback of the 800 ms timeout: it flips back the elements of the
\* indices firstCardIndex and secondCardIndex hold when it runs
flipBack(g) ==
    resetSelection([g EXCEPT !.flipped = @ \ {g.firstCardIndex, g.secondCardIndex},
                             !.flipBacks = @ - 1])

\* startGame() with the outcome of the shuffle, at clock time clock;
\* renderBoard replaces every card element, so no element is flipped
startGame(g, shuffled, clock) ==
    [g EXCEPT !.timerId = TRUE,
              !.cards = shuffled,
              !.flipped = {},
              !.firstCardIndex = NullIndex,
              !.secondCardIndex = NullIndex,
              !.moves = 0,
              !.matches = 0,
              !.lockBoard = FALSE,
              !.startTimestamp = clock,
              !.totalPairs = g.difficulty,
              !.games = @ + 1,
              !.ended = 0]


----------------------------------------------------------------------------
(* The state machine *)

Init ==
    /\ lsLeaderboard = NoItem
    /\ lsTournaments = NoItem
    /\ now = 0
    /\ tCount = 0
    /\ eCount = 0
    /\ calls = <<>>
    /\ created = "none"
    /\ session = InitialSession
    /\ server = InitialServer
    /\ game = InitialGame

\* time passes
Tick ==
    /\ now' = now + 1
    /\ UNCHANGED <<lsLeaderboard, lsTournaments, tCount, eCount, calls, created, session, server, game>>

\* LeaderboardManager.addScore(playerWallet, score, difficulty, moves, time, tournamentId)
AddScore(playerWallet, score, difficulty, moves, time, tournamentId, writeOk) ==
    /\ LET entry == NewEntry(eCount + 1, playerWallet, score, difficulty, moves,
                             time, tournamentId, now)
           r == addScore(lsLeaderboard, entry, writeOk)
       IN  /\ lsLeaderboard' = r.store
           /\ eCount' = IF r.threw THEN eCount ELSE eCount + 1
    /\ UNCHANGED <<lsTournaments, now, tCount, calls, created, session, server, game>>

\* TournamentManager.createTournament(name, entryFee, startTime, endTime, difficulty)
CreateTournament(name, entryFee, startTime, endTime, difficulty, writeOk) ==
    /\ LET r == createTournament(lsTournaments, tCount + 1, name, entryFee,
                                 Date(startTime), Date(endTime), difficulty, now, writeOk)
       IN  /\ lsTournaments' = r.store
           /\ tCount' = IF r.created THEN tCount + 1 ELSE tCount
           /\ created' = IF r.created THEN "tournament" ELSE "null"
    /\ UNCHANGED <<lsLeaderboard, now, eCount, calls, session, server, game>>

\* TournamentManager.enterTournament(connection, wallet, tournamentId), up to
\* its return or its await of makePayment
EnterTournament(wallet, tournamentId) ==
    /\ LET r == EnterCall(lsTournaments, wallet, tournamentId)
       IN  /\ lsTournaments' = r.store
           /\ calls' = Append(calls, r.call)
    /\ UNCHANGED <<lsLeaderboard, now, tCount, eCount, created, session, server, game>>

\* the makePayment promise awaited by invocation c settles and the invocation
\* runs to its return
PaymentSettles(c, outcome, writeOk) ==
    /\ c \in DOMAIN calls
    /\ calls[c].pc = "paying"
    /\ LET r == EnterResume(lsTournaments, calls[c], outcome, writeOk)
       IN  /\ lsTournaments' = r.store
           /\ calls' = [calls EXCEPT ![c] = r.call]
    /\ UNCHANGED <<lsLeaderboard, now, tCount, eCount, created, session, server, game>>

\* TournamentManager.endTournament(tournamentId)
EndTournament(tournamentId, writeOk) ==
    /\ LET r == endTournament(lsTournaments, lsLeaderboard, tournamentId, writeOk)
       IN  /\ lsTournaments' = r.store
    /\ UNCHANGED <<lsLeaderboard, now, tCount, eCount, calls, created, session, server, game>>

\* TournamentManager.checkAndUpdateTournaments()
CheckAndUpdateTournaments(writeOk) ==
    /\ lsTournaments' = checkAndUpdateTournaments(lsTournaments, lsLeaderboard, now, writeOk)
    /\ UNCHANGED <<lsLeaderboard, now, tCount, eCount, calls, created, session, server, game>>

\* TournamentManager.initializeTournaments()
InitializeTournaments(oks) ==
    /\ LET r == initializeTournaments(lsTournaments, tCount, now, oks)
       IN  /\ lsTournaments' = r.store
           /\ tCount' = tCount + r.made
           /\ created' = IF ~r.called THEN created
                          ELSE IF r.last THEN "tournament" ELSE "null"
    /\ UNCHANGED <<lsLeaderboard, now, eCount, calls, session, server, game>>

\* TournamentManager.calculatePrizeDistribution(tournamentId)
CalculatePrizeDistribution(tournamentId) ==
    /\ lsTournaments' = calculatePrizeDistribution(lsTournaments, tournamentId).store
    /\ UNCHANGED <<lsLeaderboard, now, tCount, eCount, calls, created, session, server, game>>

\* LeaderboardManager.resetTournaments()
ResetTournaments ==
    /\ lsTournaments' = NoItem
    /\ UNCHANGED <<lsLeaderboard, now, tCount, eCount, calls, created, session, server, game>>

\* LeaderboardManager.resetLeaderboard()
ResetLeaderboard ==
    /\ lsLeaderboard' = NoItem
    /\ UNCHANGED <<lsTournaments, now, tCount, eCount, calls, created, session, server, game>>

\* loadActiveTournaments' setActiveTournaments: what the page keeps of the
\* active tournaments it read
Listed(ts) ==
    LET tournaments == getActiveTournaments(ts)
    IN  [i \in DOMAIN tournaments |->
           [id |-> tournaments[i].id, difficulty |-> tournaments[i].difficulty]]

\* the page's mount effect: initializeTournaments(), then loadActiveTournaments()
Mount(oks) ==
    /\ ~session.mounted
    /\ LET r == initializeTournaments(lsTournaments, tCount, now, oks)
       IN  /\ lsTournaments' = r.store
           /\ tCount' = tCount + r.made
           /\ created' = IF ~r.called THEN created
                          ELSE IF r.last THEN "tournament" ELSE "null"
           /\ session' = [session EXCEPT !.mounted = TRUE,
                                         !.activeTournaments = Listed(r.store)]
    /\ UNCHANGED <<lsLeaderboard, now, eCount, calls, server, game>>

\* the wallet adapter connects wallet w or disconnects (w = NoKey)
WalletChanges(w) ==
    /\ w # session.connected
    /\ session' = [session EXCEPT !.connected = w]
    /\ UNCHANGED <<lsLeaderboard, lsTournaments, now, tCount, eCount, calls, created, server, game>>

\* toggleTournamentMode(enabled), from the mode tabs shown while no round is active
ToggleTournamentMode(enabled) ==
    /\ ~session.gameActive
    /\ enabled # session.isTournamentMode
    /\ LET listed == Listed(lsTournaments)
       IN  session' =
             IF ~enabled
             THEN [session EXCEPT !.isTournamentMode = FALSE, !.selectedTournament = Undefined]
             ELSE IF Len(listed) > 0
             THEN [session EXCEPT !.isTournamentMode = TRUE, !.activeTournaments = listed,
                                  !.selectedTournament = listed[1].id,
                                  !.difficulty = listed[1].difficulty]
             ELSE [session EXCEPT !.isTournamentMode = TRUE, !.activeTournaments = listed]
    /\ UNCHANGED <<lsLeaderboard, lsTournaments, now, tCount, eCount, calls, created, server, game>>

\* the tournament Select's onValueChange, shown in tournament mode while no
\* round is active; i is the position of the chosen item in activeTournaments
SelectTournament(i) ==
    /\ ~session.gameActive
    /\ session.isTournamentMode
    /\ i \in DOMAIN session.activeTournaments
    /\ session' = [session EXCEPT
                     !.selectedTournament = session.activeTournaments[i].id,
                     !.difficulty = session.activeTournaments[i].difficulty]
    /\ UNCHANGED <<lsLeaderboard, lsTournaments, now, tCount, eCount, calls, created, server, game>>

\* the difficulty Select's onValueChange, shown in practice mode while no round
\* is active
SetDifficulty(value) ==
    /\ ~session.gameActive
    /\ ~session.isTournamentMode
    /\ session' = [session EXCEPT !.difficulty = value]
    /\ UNCHANGED <<lsLeaderboard, lsTournaments, now, tCount, eCount, calls, created, server, game>>

\* the result dialog's Close button
CloseDialog ==
    /\ session.dialog
    /\ session' = [session EXCEPT !.dialog = FALSE]
    /\ UNCHANGED <<lsLeaderboard, lsTournaments, now, tCount, eCount, calls, created, server, game>>

\* initializeGame(), from the Start Game button (shown while no round is
\* active, disabled in tournament mode without a selection or a wallet) or from
\* the result dialog's Play Again / Try Again, up to its return or its await of
\* enterTournament's suspended payment
InitializeGame ==
    /\ ~session.gameActive
    /\ \/ session.dialog
       \/ ~(session.isTournamentMode
            /\ (session.selectedTournament = Undefined \/ session.connected = NoKey))
    /\ LET s == initializeGameResets(session)
       IN  IF s.isTournamentMode /\ s.selectedTournament # Undefined
           THEN LET r == EnterCall(lsTournaments, s.connected, s.selectedTournament)
                IN  /\ lsTournaments' = r.store
                    /\ calls' = Append(calls, r.call)
                    /\ session' =
                         IF r.call.pc = "paying"
                         THEN [s EXCEPT !.awaiting = @ \cup {Len(calls) + 1}]
                         ELSE IF r.call.result THEN initializeGameStarts(s) ELSE s
           ELSE /\ session' = initializeGameStarts(s)
                /\ UNCHANGED <<lsTournaments, calls>>
    /\ UNCHANGED <<lsLeaderboard, now, tCount, eCount, created, server, game>>

\* the makePayment promise awaited by invocation c settles, enterTournament
\* runs to its return and the initializeGame suspended on it runs to its end
GameEntrySettles(c, outcome, writeOk) ==
    /\ c \in session.awaiting
    /\ c \in DOMAIN calls
    /\ calls[c].pc = "paying"
    /\ LET r == EnterResume(lsTournaments, calls[c], outcome, writeOk)
           s == [session EXCEPT !.awaiting = @ \ {c}]
       IN  /\ lsTournaments' = r.store
           /\ calls' = [calls EXCEPT ![c] = r.call]
           /\ session' = IF r.call.result THEN initializeGameStarts(s) ELSE s
    /\ UNCHANGED <<lsLeaderboard, now, tCount, eCount, created, server, game>>

\* handleCardClick on the card that completes the last pair: the flip
\* callback that will call endGame(true) is scheduled 500 ms ahead
MatchLastPair(moves, time) ==
    /\ session.gameActive
    /\ ~session.gameOverRef
    /\ session.flip = <<>>
    /\ session' = [session EXCEPT !.flip = <<Closure(session, moves, time)>>]
    /\ UNCHANGED <<lsLeaderboard, lsTournaments, now, tCount, eCount, calls, created, server, game>>

\* an interval started by initializeGame reaches the time limit: it clears
\* timer.current and queues endGame(false, timeLimit)
TimeLimit ==
    /\ session.timer \/ session.leaked
    /\ session' = [session EXCEPT !.timer = FALSE, !.timeUp = TRUE]
    /\ UNCHANGED <<lsLeaderboard, lsTournaments, now, tCount, eCount, calls, created, server, game>>

\* the queued time-limit callback runs endGame(false, timeLimit)
TimeIsUp ==
    /\ session.timeUp
    /\ LET s == [session EXCEPT !.timeUp = FALSE, !.fired = @ \cup {"timer"}]
           limit == DIFFICULTY_SETTINGS[s.difficulty].timeLimit
           r == endGame(s, lsLeaderboard, eCount + 1, FALSE, Closure(s, 0, limit), now, TRUE)
       IN  /\ session' = r.session
           /\ lsLeaderboard' = r.store
           /\ eCount' = IF r.stored THEN eCount + 1 ELSE eCount
    /\ UNCHANGED <<lsTournaments, now, tCount, calls, created, server, game>>

\* the pending final-match callback runs endGame(true)
FlipTimeout(writeOk) ==
    /\ session.flip # <<>>
    /\ LET s == [session EXCEPT !.flip = <<>>, !.fired = @ \cup {"flip"}]
           r == endGame(s, lsLeaderboard, eCount + 1, TRUE, session.flip[1], now, writeOk)
       IN  /\ session' = r.session
           /\ lsLeaderboard' = r.store
           /\ eCount' = IF r.stored THEN eCount + 1 ELSE eCount
    /\ UNCHANGED <<lsTournaments, now, tCount, calls, created, server, game>>

\* in a tab sharing the store with other tabs: the makePayment promise awaited
\* by invocation c settles and the invocation runs up to joinTournament's
\* setItem
TabPaymentSettles(c, outcome) ==
    /\ c \in DOMAIN calls
    /\ calls[c].pc = "paying"
    /\ calls' = [calls EXCEPT ![c] = EnterResumeReads(lsTournaments, calls[c], outcome)]
    /\ UNCHANGED <<lsLeaderboard, lsTournaments, now, tCount, eCount, created, session, server, game>>

\* invocation c replaces the stored collection and returns
TabWrites(c, writeOk) ==
    /\ c \in DOMAIN calls
    /\ calls[c].pc = "writing"
    /\ LET r == EnterResumeWrites(lsTournaments, calls[c], writeOk)
       IN  /\ lsTournaments' = r.store
           /\ calls' = [calls EXCEPT ![c] = r.call]
    /\ UNCHANGED <<lsLeaderboard, now, tCount, eCount, created, session, server, game>>

\* the text under the leaderboard key is damaged outside the application
DamageLeaderboard ==
    /\ lsLeaderboard.kind = "json"
    /\ lsLeaderboard' = Damaged(lsLeaderboard.value)
    /\ UNCHANGED <<lsTournaments, now, tCount, eCount, calls, created, session, server, game>>

\* the text under the tournaments key is damaged outside the application
DamageTournaments ==
    /\ lsTournaments.kind = "json"
    /\ lsTournaments' = Damaged(lsTournaments.value)
    /\ UNCHANGED <<lsLeaderboard, now, tCount, eCount, calls, created, session, server, game>>

\* unnamed/part_005: the makePayment promise awaited by invocation c of its
\* enterTournament settles and the invocation runs to its return
PaymentSettlesPart005(c, outcome, writeOk) ==
    /\ c \in DOMAIN calls
    /\ calls[c].pc = "paying"
    /\ LET r == EnterResumePart005(lsTournaments, calls[c], outcome, writeOk)
       IN  /\ lsTournaments' = r.store
           /\ calls' = [calls EXCEPT ![c] = r.call]
    /\ UNCHANGED <<lsLeaderboard, now, tCount, eCount, created, session, server, game>>

(* Steps of the operations, with their inputs drawn from the input sets *)

SomeAddScore ==
    \E w \in Wallets, s \in Scores, d \in Difficulties, m \in Moves, t \in Seconds,
       tid \in {Undefined} \cup TournamentIds, ok \in BOOLEAN :
        AddScore(w, s, d, m, t, tid, ok)

SomeCreateTournament ==
    \E n \in Names, f \in FeeInputs, win \in Windows,
       d \in Difficulties, ok \in BOOLEAN :
        CreateTournament(n, f, win[1], win[2], d, ok)

SomeEnterTournament ==
    \E w \in Wallets \cup {NoKey}, tid \in TournamentIds : EnterTournament(w, tid)

SomePaymentSettles ==
    \E c \in DOMAIN calls, o \in PaymentOutcomes, ok \in BOOLEAN : PaymentSettles(c, o, ok)

SomeEndTournament == \E tid \in TournamentIds, ok \in BOOLEAN : EndTournament(tid, ok)

SomeCheckAndUpdate == \E ok \in BOOLEAN : CheckAndUpdateTournaments(ok)

\* Tournament entry: the lifecycle manager and the payment capability, one
\* in-process caller, no scores submitted
Next ==
    \/ (now < MaxTime /\ Tick)
    \/ (tCount < MaxTournaments /\ SomeCreateTournament)
    \/ (Len(calls) < MaxCalls /\ SomeEnterTournament)
    \/ SomePaymentSettles
    \/ SomeEndTournament
    \/ SomeCheckAndUpdate
    \/ ResetTournaments

Spec == Init /\ [][Next]_vars

\* Every operation of the repository and of the lifecycle manager
NextAll ==
    \/ Next
    \/ (eCount < MaxScored /\ SomeAddScore)
    \/ ResetLeaderboard

SpecAll == Init /\ [][NextAll]_vars

\* The leaderboard alone
NextBoard ==
    \/ (now < MaxTime /\ Tick)
    \/ (eCount < MaxEntries /\ SomeAddScore)
    \/ ResetLeaderboard

SpecBoard == Init /\ [][NextBoard]_vars

SomeCalculatePrizeDistribution ==
    \E tid \in TournamentIds : CalculatePrizeDistribution(tid)

\* The prize pool: tournaments are created and entered and their prizes read
NextPrize ==
    \/ (tCount < MaxTournaments /\ SomeCreateTournament)
    \/ (Len(calls) < MaxCalls /\ SomeEnterTournament)
    \/ SomePaymentSettles
    \/ SomeCalculatePrizeDistribution
    \/ ResetTournaments

SpecPrize == Init /\ [][NextPrize]_vars

SomeInitializeTournaments ==
    \E ok1, ok2, ok3 \in BOOLEAN : InitializeTournaments(<<ok1, ok2, ok3>>)

\* The bootstrap: the application starts (it calls initializeTournaments when
\* the page mounts) among the other operations on the tournaments
NextSeed ==
    \/ (now < MaxTime /\ Tick)
    \/ (tCount + Len(SeedTournaments) <= MaxSeeded /\ SomeInitializeTournaments)
    \/ (tCount < MaxTournaments /\ SomeCreateTournament)
    \/ SomeCheckAndUpdate
    \/ SomeEndTournament
    \/ ResetTournaments

SpecSeed == Init /\ [][NextSeed]_vars

\* The life of a tournament while scores are submitted: creation, manual end
\* and reconciliation, nobody entering
NextLife ==
    \/ (now < MaxTime /\ Tick)
    \/ (tCount < MaxTournaments /\ SomeCreateTournament)
    \/ (eCount < MaxLifeScores /\ SomeAddScore)
    \/ SomeEndTournament
    \/ SomeCheckAndUpdate

SpecLife == Init /\ [][NextLife]_vars

\* Reconciliation of several tournaments over a longer time, no scores
NextLate ==
    \/ (now < MaxLateTime /\ Tick)
    \/ (tCount < MaxLateTournaments /\ SomeCreateTournament)
    \/ SomeCheckAndUpdate
    \/ SomeEndTournament
    \/ ResetTournaments

SpecLate == Init /\ [][NextLate]_vars

\* The leaderboard as the ranking queries read it: scores of two difficulties,
\* with and without a tournament, a score of zero among them
SomeRankedScore ==
    \E w \in Wallets, s \in RankScores, d \in RankDifficulties, m \in Moves,
       t \in Seconds, tid \in {Undefined} \cup RankTournamentIds, ok \in BOOLEAN :
        AddScore(w, s, d, m, t, tid, ok)

NextRank ==
    \/ (eCount < MaxRanked /\ SomeRankedScore)
    \/ ResetLeaderboard

SpecRank == Init /\ [][NextRank]_vars

SomeWalletChange == \E w \in SessionWallets \cup {NoKey} : WalletChanges(w)

SomeToggleTournamentMode == \E enabled \in BOOLEAN : ToggleTournamentMode(enabled)

SomeSelectTournament == \E i \in DOMAIN session.activeTournaments : SelectTournament(i)

SomeSetDifficulty == \E value \in SessionDifficulties : SetDifficulty(value)

SomeGameEntrySettles ==
    \E c \in DOMAIN calls, o \in PaymentOutcomes, ok \in BOOLEAN : GameEntrySettles(c, o, ok)

SomeMatchLastPair == \E m \in Moves, t \in Seconds : MatchLastPair(m, t)

SomeFlipTimeout == \E ok \in BOOLEAN : FlipTimeout(ok)

\* the storage takes every write of the bootstrap or none of them
SomeMount == \E ok \in BOOLEAN : Mount(<<ok, ok, ok>>)

\* The game page: it mounts, then one player's rounds in practice and in
\* tournament mode, their entries, and the callbacks that end a round
NextSession ==
    \/ SomeMount
    \/ (session.mounted /\ SomeWalletChange)
    \/ (session.mounted /\ SomeToggleTournamentMode)
    \/ (session.mounted /\ SomeSelectTournament)
    \/ (session.mounted /\ SomeSetDifficulty)
    \/ CloseDialog
    \/ (session.mounted /\ session.round < MaxRounds /\ InitializeGame)
    \/ SomeGameEntrySettles
    \/ SomeMatchLastPair
    \/ TimeLimit
    \/ TimeIsUp
    \/ SomeFlipTimeout

SpecSession == Init /\ [][NextSession]_vars

SomeTabPaymentSettles ==
    \E c \in DOMAIN calls, o \in PaymentOutcomes : TabPaymentSettles(c, o)

SomeTabWrites == \E c \in DOMAIN calls, ok \in BOOLEAN : TabWrites(c, ok)

\* Browser tabs sharing one store: every enterTournament invocation runs in a
\* tab of its own, and nothing orders one tab's read and write of the store
\* against another tab's
NextTabs ==
    \/ (tCount < MaxTournaments /\ SomeCreateTournament)
    \/ (Len(calls) < MaxCalls /\ SomeEnterTournament)
    \/ SomeTabPaymentSettles
    \/ SomeTabWrites

SpecTabs == Init /\ [][NextTabs]_vars

\* Reading a damaged store: scores and tournaments are stored, the text under
\* either key is damaged, and the application goes on reading and writing
NextRead ==
    \/ (eCount < MaxScored /\ SomeAddScore)
    \/ (tCount < MaxTournaments /\ SomeCreateTournament)
    \/ DamageLeaderboard
    \/ DamageTournaments
    \/ (now < MaxTime /\ Tick)
    \/ SomeCheckAndUpdate

SpecRead == Init /\ [][NextRead]_vars

SomePaymentSettlesPart005 ==
    \E c \in DOMAIN calls, o \in PaymentOutcomes, ok \in BOOLEAN :
        PaymentSettlesPart005(c, o, ok)

\* Tournament entry as unnamed/part_005 has it: its enterTournament is the
\* lifecycle manager's up to the await and differs from it afterwards
NextPart005 ==
    \/ (now < MaxTime /\ Tick)
    \/ (tCount < MaxTournaments /\ SomeCreateTournament)
    \/ (Len(calls) < MaxCalls /\ SomeEnterTournament)
    \/ SomePaymentSettlesPart005
    \/ ResetTournaments

SpecPart005 == Init /\ [][NextPart005]_vars

----------------------------------------------------------------------------
(* The requests of the presale server *)

\* the start-up function: initializeData(), then app.listen
Boot(readOk) ==
    /\ ~server.listening
    /\ server' = [server EXCEPT !.listening = TRUE,
                                !.presaleTiers = loadTiers(readOk)]
    /\ UNCHANGED <<lsLeaderboard, lsTournaments, now, tCount, eCount, calls, created,
                   session, game>>

\* GET /tiers
GetTiers(readOk) ==
    /\ server.listening
    /\ LET loaded == IF Len(server.presaleTiers) = 0
                     THEN [server EXCEPT !.presaleTiers = loadTiers(readOk)]
                     ELSE server
       IN  server' = [loaded EXCEPT !.currentTierIndex = updateCurrentTier(loaded),
                                    !.response = Response("tiers", "", 200)]
    /\ UNCHANGED <<lsLeaderboard, lsTournaments, now, tCount, eCount, calls, created,
                   session, game>>

\* GET /status
GetStatus ==
    /\ server.listening
    /\ server' = [server EXCEPT !.currentTierIndex = updateCurrentTier(server),
                                !.response = Response("status", "", 200)]
    /\ UNCHANGED <<lsLeaderboard, lsTournaments, now, tCount, eCount, calls, created,
                   session, game>>

\* POST /buy
PostBuy(wallet, amount, token, signature) ==
    /\ server.listening
    /\ server' = buyHandler(server, wallet, amount, token, signature)
    /\ UNCHANGED <<lsLeaderboard, lsTournaments, now, tCount, eCount, calls, created,
                   session, game>>

\* GET /can-claim/:wallet
GetCanClaim(wallet) ==
    /\ server.listening
    /\ LET body == canClaimBody(server.purchases, wallet)
       IN  server' = [server EXCEPT !.response =
                         [route |-> "can-claim", wallet |-> wallet, status |-> 200,
                          canClaim |-> body.canClaim, total |-> body.total]]
    /\ UNCHANGED <<lsLeaderboard, lsTournaments, now, tCount, eCount, calls, created,
                   session, game>>

\* POST /claim
PostClaim(wallet, signature) ==
    /\ server.listening
    /\ server' = claimHandler(server, wallet, signature)
    /\ UNCHANGED <<lsLeaderboard, lsTournaments, now, tCount, eCount, calls, created,
                   session, game>>

\* The presale server alone
SomeBoot == \E readOk \in BOOLEAN : Boot(readOk)
SomeGetTiers == \E readOk \in BOOLEAN : GetTiers(readOk)
SomePostBuy ==
    \E wallet \in ServerWallets \cup {""}, amount \in BuyAmounts,
       fields \in {Absent, JString("t")} :
        PostBuy(wallet, amount, fields, fields)
SomeGetCanClaim == \E wallet \in ServerWallets : GetCanClaim(wallet)
SomePostClaim ==
    \E wallet \in ServerWallets \cup {""}, signature \in {Absent, JString("t")} :
        PostClaim(wallet, signature)

NextServer ==
    \/ SomeBoot
    \/ SomeGetTiers
    \/ GetStatus
    \/ (Len(server.purchases) < MaxPurchases /\ SomePostBuy)
    \/ SomeGetCanClaim
    \/ SomePostClaim
    \/ (now < MaxTime /\ Tick)

SpecServer == Init /\ [][NextServer]_vars

----------------------------------------------------------------------------
(* The events of the standalone game *)

\* the DOMContentLoaded handler: loadTournaments, the stored or a generated
\* wallet, the first option of the tournament select
DOMContentLoaded ==
    /\ ~game.loaded
    /\ game' = [game EXCEPT
                  !.loaded = TRUE,
                  !.storedTournaments =
                      IF Len(@) = 0 THEN <<DefaultTournament>> ELSE @,
                  !.playerWallet =
                      IF trim(game.storedWallet) # "" THEN trim(game.storedWallet)
                      ELSE "guest",
                  !.storedWallet =
                      IF trim(game.storedWallet) # "" THEN @ ELSE "guest",
                  !.selectedTournamentId = ""]
    /\ UNCHANGED <<lsLeaderboard, lsTournaments, now, tCount, eCount, calls, created,
                   session, server>>

\* the click handler of the Start button
StartGame(shuffled) ==
    /\ game.loaded
    /\ game' = startGame(game, shuffled, now)
    /\ UNCHANGED <<lsLeaderboard, lsTournaments, now, tCount, eCount, calls, created,
                   session, server>>

\* a click on the card element of the given index
CardClick(index, writeOk) ==
    /\ game.loaded
    /\ index \in DOMAIN game.cards
    /\ game' = onCardClick(game, index, now, writeOk)
    /\ UNCHANGED <<lsLeaderboard, lsTournaments, now, tCount, eCount, calls, created,
                   session, server>>

\* a pending flip-back timeout runs
FlipBackTimeout ==
    /\ game.flipBacks > 0
    /\ game' = flipBack(game)
    /\ UNCHANGED <<lsLeaderboard, lsTournaments, now, tCount, eCount, calls, created,
                   session, server>>

\* the change handler of the difficulty select (it renders the leaderboard)
DifficultyChange(value) ==
    /\ game.loaded
    /\ game' = [game EXCEPT !.difficulty = value]
    /\ UNCHANGED <<lsLeaderboard, lsTournaments, now, tCount, eCount, calls, created,
                   session, server>>

\* the input handler of the wallet field
WalletInput(text) ==
    /\ game.loaded
    /\ game' = [game EXCEPT !.playerWallet = trim(text),
                            !.storedWallet = trim(text)]
    /\ UNCHANGED <<lsLeaderboard, lsTournaments, now, tCount, eCount, calls, created,
                   session, server>>

\* the change handler of the tournament select: the option of the given id
\* ("" is the option None, which carries no difficulty)
TournamentChange(id) ==
    /\ game.loaded
    /\ \/ id = ""
       \/ \E k \in DOMAIN game.storedTournaments : game.storedTournaments[k].id = id
    /\ game' = [game EXCEPT
                  !.selectedTournamentId = id,
                  !.difficulty =
                      IF id = "" THEN @
                      ELSE (CHOOSE t \in {game.storedTournaments[k] :
                                            k \in DOMAIN game.storedTournaments} :
                                t.id = id).difficulty]
    /\ UNCHANGED <<lsLeaderboard, lsTournaments, now, tCount, eCount, calls, created,
                   session, server>>

\* The standalone game alone
SomeStartGame ==
    \E shuffled \in Shuffles(BuiltCards(getImageList(game.setName, game.difficulty))) :
        StartGame(shuffled)
SomeCardClick == \E index \in DOMAIN game.cards, writeOk \in BOOLEAN : CardClick(index, writeOk)
SomeDifficultyChange == \E value \in PairCounts : DifficultyChange(value)
SomeWalletInput == \E text \in WalletTexts : WalletInput(text)
SomeTournamentChange == \E id \in {"", DefaultTournament.id} : TournamentChange(id)

NextGame ==
    \/ DOMContentLoaded
    \/ (game.games < MaxGames /\ SomeStartGame)
    \/ (game.moves < MaxMoves /\ game.flipBacks < MaxFlipBacks /\ SomeCardClick)
    \/ FlipBackTimeout
    \/ SomeDifficultyChange
    \/ SomeWalletInput
    \/ SomeTournamentChange

SpecGame == Init /\ [][NextGame]_vars

----------------------------------------------------------------------------
(* Reading the state *)

Stored == getTournaments(lsTournaments)

IsStored(tid) == FindIndex(Stored, tid) # 0

TournamentOf(tid) == Stored[FindIndex(Stored, tid)]

\* how often wallet w occurs in the participants of tournament t
Occurrences(t, w) ==
    Cardinality({k \in DOMAIN t.participants : t.participants[k] = w})

LastCall == calls[Len(calls)]

\* invocations for wallet w and tournament tid
CallsOf(w, tid) == {c \in DOMAIN calls : calls[c].wallet = w /\ calls[c].tid = tid}

----------------------------------------------------------------------------
(* Claims about tournament entry *)

\* C1: enterTournament called again for a wallet whose earlier call for the
\* same tournament returned true, the tournament being stored and active,
\* returns true at once without invoking makePayment and without writing the
\* store; the wallet is in participants exactly once and prizePool holds one
\* entryFee per participant.
C1_IdempotentEntry ==
    [][\A w \in Wallets, tid \in TournamentIds :
          ( /\ EnterTournament(w, tid)
            /\ \E c \in CallsOf(w, tid) : calls[c].pc = "done" /\ calls[c].result
            /\ IsStored(tid)
            /\ TournamentOf(tid).status = "active" )
          => /\ LastCall'.pc = "done"
             /\ LastCall'.result = TRUE
             /\ LastCall'.payment = "none"
             /\ lsTournaments' = lsTournaments
             /\ Occurrences(TournamentOf(tid), w)' = 1
             /\ TournamentOf(tid).prizePool' =
                    TournamentOf(tid).entryFee' * Len(TournamentOf(tid).participants')
      ]_vars

\* the second call has returned true without paying, after a first call that paid
C1_Witness ==
    /\ Len(calls) = 2
    /\ calls[1].wallet = calls[2].wallet /\ calls[1].tid = calls[2].tid
    /\ calls[1].payment = "paid" /\ calls[1].result
    /\ calls[2].payment = "none" /\ calls[2].result /\ calls[2].pc = "done"
    /\ IsStored(calls[2].tid)
    /\ TournamentOf(calls[2].tid).prizePool = 2

\* C2: when the awaited payment fails (resolves to false, or rejects), the
\* invocation returns false and the stored tournaments are what they were.
C2_FailedPaymentNoChange ==
    [][\A c \in DOMAIN calls :
          ( /\ calls[c].pc = "paying"
            /\ calls'[c].pc = "done"
            /\ calls'[c].payment \in {"failed", "threw"} )
          => /\ calls'[c].result = FALSE
             /\ lsTournaments' = lsTournaments
      ]_vars

\* one payment has resolved to false and another has rejected
C2_Witness ==
    /\ \E c \in DOMAIN calls : calls[c].payment = "failed" /\ calls[c].pc = "done"
    /\ \E c \in DOMAIN calls : calls[c].payment = "threw" /\ calls[c].pc = "done"
    /\ \E i \in DOMAIN Stored : Stored[i].participants = <<>> /\ Stored[i].prizePool = 0

\* C3: for each wallet and tournament at most one payment is pending or
\* taken, and the wallet is credited at most once.
C3_AtMostOncePerWallet ==
    \A w \in Wallets, tid \in TournamentIds :
        /\ Cardinality({c \in CallsOf(w, tid) :
                            calls[c].payment \in {"pending", "paid"}}) <= 1
        /\ \A i \in DOMAIN Stored : Occurrences(Stored[i], w) <= 1

\* C4: a step of an enterTournament invocation that writes the stored
\* tournaments is the step in which its payment has resolved to success.
C4_NoWriteBeforePayment ==
    [][(calls' # calls /\ lsTournaments' # lsTournaments)
          => \E c \in DOMAIN calls :
                /\ calls[c].payment = "pending"
                /\ calls'[c].payment = "paid"
                /\ \A d \in DOMAIN calls' : d # c => d \in DOMAIN calls /\ calls'[d] = calls[d]
      ]_vars

\* an invocation has written the store after its payment succeeded
C4_Witness ==
    \E c \in DOMAIN calls :
        /\ calls[c].payment = "paid" /\ calls[c].result
        /\ IsStored(calls[c].tid)
        /\ Includes(TournamentOf(calls[c].tid).participants, calls[c].wallet)
        /\ TournamentOf(calls[c].tid).prizePool = calls[c].fee

\* C5: an invocation whose payment succeeded returns true and leaves the
\* wallet a participant of the tournament.
C5_PaidMeansEntered ==
    [][\A c \in DOMAIN calls :
          (calls[c].pc = "paying" /\ calls'[c].payment = "paid")
          => /\ calls'[c].result = TRUE
             /\ IsStored(calls[c].tid)'
             /\ Includes(TournamentOf(calls[c].tid).participants, calls[c].wallet)'
      ]_vars

\* the wallets whose enterTournament for tournament tid has returned true
Entered(tid) ==
    {w \in Wallets : \E c \in CallsOf(w, tid) : calls[c].pc = "done" /\ calls[c].result}

\* C6: a stored tournament's prizePool is its entryFee times the number of
\* distinct wallets whose enterTournament returned true.
C6_PrizePoolIsNTimesFee ==
    \A i \in DOMAIN Stored :
        Stored[i].prizePool = Cardinality(Entered(Stored[i].id)) * Stored[i].entryFee

\* two distinct wallets have entered a tournament with a positive fee
C6_Witness ==
    \E i \in DOMAIN Stored :
        /\ Cardinality(Entered(Stored[i].id)) = 2
        /\ Stored[i].entryFee = 2
        /\ Stored[i].prizePool = 4

\* C7: a tournament enters the store with prizePool 0, and no step lowers the
\* prizePool of a tournament that stays in the store.
C7_PrizePoolMonotonic ==
    [][\A j \in DOMAIN Stored' :
          IF \E i \in DOMAIN Stored : Stored[i].id = Stored'[j].id
          THEN \A i \in DOMAIN Stored :
                   Stored[i].id = Stored'[j].id
                       => Stored'[j].prizePool >= Stored[i].prizePool
          ELSE Stored'[j].prizePool = 0
      ]_vars

\* a tournament with entry fees collected was ended, with a score on its board
C7_Witness ==
    \E i \in DOMAIN Stored :
        /\ Stored[i].prizePool > 0
        /\ Stored[i].status = "completed"
        /\ Stored[i].winners # <<>>

\* C8: no wallet occurs twice in a tournament's participants.
C8_ParticipantsUnique ==
    \A i \in DOMAIN Stored : \A w \in Wallets : Occurrences(Stored[i], w) <= 1

\* two overlapping invocations for one wallet both paid; it is credited once
C8_Witness ==
    /\ Len(calls) = 2
    /\ calls[1].wallet = calls[2].wallet /\ calls[1].tid = calls[2].tid
    /\ calls[1].payment = "paid" /\ calls[2].payment = "paid"
    /\ calls[1].result /\ calls[2].result
    /\ IsStored(calls[1].tid)
    /\ Occurrences(TournamentOf(calls[1].tid), calls[1].wallet) = 1

\* C9: enterTournament with no public key, with an id no stored tournament
\* has, or for a tournament that is not active returns false at once, without
\* invoking makePayment and without writing the store.
C9_RejectedEntry ==
    [][\A w \in Wallets \cup {NoKey}, tid \in TournamentIds :
          ( /\ EnterTournament(w, tid)
            /\ \/ w = NoKey
               \/ ~IsStored(tid)
               \/ TournamentOf(tid).status # "active" )
          => /\ LastCall'.pc = "done"
             /\ LastCall'.result = FALSE
             /\ LastCall'.payment = "none"
             /\ lsTournaments' = lsTournaments
      ]_vars

\* a call without a key and a call for a tournament that is not active were
\* both rejected
C9_Witness ==
    /\ Len(calls) = 2
    /\ calls[1].wallet = NoKey /\ calls[1].result = FALSE
    /\ calls[2].wallet # NoKey /\ calls[2].result = FALSE /\ calls[2].payment = "none"
    /\ IsStored(calls[2].tid)
    /\ TournamentOf(calls[2].tid).status = "upcoming"

----------------------------------------------------------------------------
(* Claims about the leaderboard *)

\* C10: a successful addScore makes getLeaderboard() longer by exactly one,
\* the new entry has an id no stored entry has, and every entry stored before
\* is still stored with every field as it was.
C10_AppendOnly ==
    [][eCount' = eCount + 1
          => LET old == getLeaderboard(lsLeaderboard)
                 new == getLeaderboard(lsLeaderboard')
             IN  /\ Len(new) = Len(old) + 1
                 /\ \A i \in DOMAIN old : \E j \in DOMAIN new : new[j] = old[i]
                 /\ \E j \in DOMAIN new :
                        /\ new[j].id = eCount'
                        /\ \A i \in DOMAIN old : old[i].id # new[j].id
      ]_vars

\* three scores are stored, two of them submitted with identical arguments
C10_Witness ==
    LET lb == getLeaderboard(lsLeaderboard)
    IN  /\ Len(lb) = 3
        /\ \E i, j \in DOMAIN lb :
              /\ i # j
              /\ lb[i].id # lb[j].id
              /\ [lb[i] EXCEPT !.id = 0] = [lb[j] EXCEPT !.id = 0]

----------------------------------------------------------------------------
(* Claims about the creation of tournaments *)

\* C16: createTournament with entryFee >= 0 and startTime < endTime, its
\* write succeeding, returns the tournament and appends exactly it to the
\* stored tournaments: prizePool 0, no participants, no winners, and status
\* upcoming if now < startTime, active if startTime <= now < endTime,
\* completed if now >= endTime.
C16_CreateValid ==
    [][\A n \in Names, f \in FeeInputs, win \in Windows, d \in Difficulties :
          ( /\ CreateTournament(n, f, win[1], win[2], d, TRUE)
            /\ f >= 0
            /\ win[1] < win[2] )
          => /\ created' = "tournament"
             /\ Stored' = Append(Stored,
                    [id |-> tCount + 1, name |-> n,
                     status |-> IF now < win[1] THEN "upcoming"
                                ELSE IF now < win[2] THEN "active"
                                ELSE "completed",
                     startTime |-> Date(win[1]), endTime |-> Date(win[2]),
                     entryFee |-> f, prizePool |-> 0, participants |-> <<>>,
                     difficulty |-> d, winners |-> <<>>])
      ]_vars

\* the latest call created a tournament that starts later
C16_Witness ==
    /\ created = "tournament"
    /\ Len(Stored) = 1
    /\ Stored[1].status = "upcoming"
    /\ now < TimeOf(Stored[1].startTime)
    /\ Stored[1].prizePool = 0 /\ Stored[1].participants = <<>> /\ Stored[1].winners = <<>>

\* C17: createTournament with entryFee < 0 or with startTime >= endTime
\* returns null and leaves the stored tournaments as they were.
C17_CreateInvalid ==
    [][\A n \in Names, f \in FeeInputs, win \in Windows, d \in Difficulties,
         ok \in BOOLEAN :
          ( /\ CreateTournament(n, f, win[1], win[2], d, ok)
            /\ (f < 0 \/ win[1] >= win[2]) )
          => /\ created' = "null"
             /\ lsTournaments' = lsTournaments
             /\ tCount' = tCount
      ]_vars

\* the latest call was refused and nothing is stored
C17_Witness ==
    /\ created = "null"
    /\ lsTournaments = NoItem
    /\ tCount = 0

----------------------------------------------------------------------------
(* Claims about the status of tournaments *)

Descending(b) == \A i, j \in DOMAIN b : i < j => b[i].score >= b[j].score

\* the tournament at position i before a step is the one at position j after it
SameTournament(i, j) == Stored[i].id = Stored'[j].id

\* C18: checkAndUpdateTournaments run at a time now >= endTime of a tournament
\* that is active, its write succeeding, leaves the tournament completed, its
\* winners being the first min(3, n) of the n entries of
\* getTournamentLeaderboard(id) at that moment, in descending order of score.
C18_ActiveCompletes ==
    [][\A i \in DOMAIN Stored :
          ( /\ CheckAndUpdateTournaments(TRUE)
            /\ Stored[i].status = "active"
            /\ now >= TimeOf(Stored[i].endTime) )
          => LET b == getTournamentLeaderboard(lsLeaderboard, Stored[i].id)
                 w == Stored'[i].winners
             IN  /\ Len(Stored') = Len(Stored)
                 /\ SameTournament(i, i)
                 /\ Stored'[i].status = "completed"
                 /\ Len(w) = (IF Len(b) < 3 THEN Len(b) ELSE 3)
                 /\ \A k \in DOMAIN w : w[k] = b[k]
                 /\ Descending(w)
      ]_vars

\* a completed tournament has three winners out of four entries, the entry
\* left out having the lowest score
C18_Witness ==
    \E i \in DOMAIN Stored :
        /\ Stored[i].status = "completed"
        /\ now >= TimeOf(Stored[i].endTime)
        /\ Len(Stored[i].winners) = 3
        /\ Len(getTournamentLeaderboard(lsLeaderboard, Stored[i].id)) = 4
        /\ Stored[i].winners[1].score > Stored[i].winners[3].score

\* C19: after checkAndUpdateTournaments has run at a time now, its write
\* succeeding, every tournament with endTime <= now is completed, and every
\* tournament that was upcoming with startTime <= now < endTime is active.
C19_AllReconciled ==
    [][CheckAndUpdateTournaments(TRUE)
          => \A i \in DOMAIN Stored' :
                /\ TimeOf(Stored'[i].endTime) <= now => Stored'[i].status = "completed"
                /\ ( /\ i \in DOMAIN Stored
                     /\ Stored[i].status = "upcoming"
                     /\ TimeOf(Stored[i].startTime) <= now
                     /\ now < TimeOf(Stored[i].endTime) )
                   => Stored'[i].status = "active"
      ]_vars

\* C20: the status of a stored tournament moves forward only: in every step
\* that writes the stored tournaments, one that is completed stays completed
\* and one that is active does not become upcoming.
C20_StatusForward ==
    [][\A i \in DOMAIN Stored, j \in DOMAIN Stored' :
          (lsTournaments' # lsTournaments /\ SameTournament(i, j))
          => /\ Stored[i].status = "completed" => Stored'[j].status = "completed"
             /\ Stored[i].status = "active" => Stored'[j].status # "upcoming"
      ]_vars

\* a tournament that was ended before its endTime is still completed, with
\* a wallet entered while it was active
C20_Witness ==
    \E i \in DOMAIN Stored :
        /\ Stored[i].status = "completed"
        /\ now < TimeOf(Stored[i].endTime)
        /\ Stored[i].participants # <<>>

\* C26: in every state, checkAndUpdateTournaments calls setItem only if the
\* scan changes the status of a tournament; when it changes none the stored
\* item is left as it is; and a second run at the same instant, after a run
\* whose write succeeded, calls setItem no more and changes nothing.
C26_WriteOnlyOnChange ==
    LET wrote == checkAndUpdateWrites(lsTournaments, lsLeaderboard, now)
        once  == checkAndUpdateTournaments(lsTournaments, lsLeaderboard, now, TRUE)
        after == getTournaments(once)
    IN  /\ wrote <=> (\E i \in DOMAIN Stored : after[i].status # Stored[i].status)
        /\ ~wrote =>
              \A ok \in BOOLEAN :
                  checkAndUpdateTournaments(lsTournaments, lsLeaderboard, now, ok)
                      = lsTournaments
        /\ ~checkAndUpdateWrites(once, lsLeaderboard, now)
        /\ \A ok \in BOOLEAN :
              checkAndUpdateTournaments(once, lsLeaderboard, now, ok) = once

\* two tournaments are stored, one completed after its end and one active in
\* its window: a run finds nothing to change
C26_Witness ==
    /\ Len(Stored) = 2
    /\ \E i, j \in DOMAIN Stored :
          /\ Stored[i].status = "completed" /\ now >= TimeOf(Stored[i].endTime)
          /\ Stored[j].status = "active" /\ now < TimeOf(Stored[j].endTime)
    /\ ~checkAndUpdateWrites(lsTournaments, lsLeaderboard, now)

\* C21: a stored tournament has at most 3 winners, and has winners only if
\* its status is completed.
C21_WinnersAtCompletion ==
    \A i \in DOMAIN Stored :
        /\ Len(Stored[i].winners) <= 3
        /\ Stored[i].winners # <<>> => Stored[i].status = "completed"

\* a tournament ended while it was active has three winners, four scores
\* being on its leaderboard
C21_Witness ==
    \E i \in DOMAIN Stored :
        /\ Len(Stored[i].winners) = 3
        /\ TimeOf(Stored[i].startTime) <= now /\ now < TimeOf(Stored[i].endTime)
        /\ Len(getTournamentLeaderboard(lsLeaderboard, Stored[i].id)) = 4

----------------------------------------------------------------------------
(* Claims about the bootstrap *)

AllWritten == <<TRUE, TRUE, TRUE>>

\* C25: in every state, initializeTournaments with no tournament stored, its
\* writes succeeding, leaves exactly three tournaments stored, for easy,
\* medium and hard; with a tournament stored it leaves the stored item as it
\* is; and called again after itself it changes nothing.
C25_SeedOnce ==
    LET r == initializeTournaments(lsTournaments, tCount, now, AllWritten)
        after == getTournaments(r.store)
    IN  /\ IF Len(Stored) = 0
           THEN /\ Len(after) = 3
                /\ <<after[1].difficulty, after[2].difficulty, after[3].difficulty>>
                      = <<"easy", "medium", "hard">>
                /\ \A j, k \in 1..3 : j # k => after[j].id # after[k].id
           ELSE \A ok1, ok2, ok3 \in BOOLEAN :
                   initializeTournaments(lsTournaments, tCount, now,
                                         <<ok1, ok2, ok3>>).store = lsTournaments
        /\ \A ok1, ok2, ok3 \in BOOLEAN :
               initializeTournaments(r.store, tCount + r.made, now,
                                     <<ok1, ok2, ok3>>).store = r.store

\* the starter set is stored, seeded a second time after a reset
C25_Witness ==
    /\ Len(Stored) = 3
    /\ <<Stored[1].name, Stored[2].name, Stored[3].name>>
          = <<"Easy Tournament", "Medium Tournament", "Hard Tournament">>
    /\ <<Stored[1].id, Stored[2].id, Stored[3].id>> = <<4, 5, 6>>
    /\ \A i \in 1..3 : Stored[i].status = "active" /\ Stored[i].prizePool = 0

----------------------------------------------------------------------------
(* Claims about the prizes *)

RECURSIVE SumOfAmounts(_)
SumOfAmounts(prizes) ==
    IF prizes = <<>> THEN 0 ELSE prizes[1].amount + SumOfAmounts(Tail(prizes))

\* C23: for every stored tournament the amounts calculatePrizeDistribution
\* returns sum to at most its prizePool.
C23_PrizesWithinPool ==
    \A i \in DOMAIN Stored :
        SumOfAmounts(calculatePrizeDistribution(lsTournaments, Stored[i].id).prizes)
            <= Stored[i].prizePool * PrizeScale

\* two wallets have paid a fee of 2: of the pool of 4, 3.996 is distributed
C23_Witness ==
    \E i \in DOMAIN Stored :
        /\ Stored[i].prizePool = 4
        /\ SumOfAmounts(calculatePrizeDistribution(lsTournaments, Stored[i].id).prizes) = 3996

\* C24: in every state calculatePrizeDistribution(id) leaves the stored
\* tournaments as they are; for a stored tournament it returns one row for
\* each of the ranks 1, 2, 3, with the percentages 50, 30, 19.9 and the amount
\* that percentage of the current prizePool; for any other id it returns the
\* empty sequence.
C24_PrizeRows ==
    \A tid \in TournamentIds :
        LET r == calculatePrizeDistribution(lsTournaments, tid)
        IN  /\ r.store = lsTournaments
            /\ IF ~IsStored(tid) THEN r.prizes = <<>>
               ELSE /\ Len(r.prizes) = 3
                    /\ \A k \in 1..3 :
                          /\ r.prizes[k].rank = k
                          /\ r.prizes[k].percentage = <<500, 300, 199>>[k]
                          /\ r.prizes[k].amount
                                = TournamentOf(tid).prizePool * r.prizes[k].percentage

\* the prizes of a tournament one wallet has entered are 1, 0.6 and 0.398
C24_Witness ==
    \E tid \in TournamentIds :
        /\ IsStored(tid)
        /\ TournamentOf(tid).prizePool = 2
        /\ LET prizes == calculatePrizeDistribution(lsTournaments, tid).prizes
           IN  <<prizes[1].amount, prizes[2].amount, prizes[3].amount>> = <<1000, 600, 398>>

----------------------------------------------------------------------------
(* Claims about the ranking queries *)

Board == getLeaderboard(lsLeaderboard)

\* b holds each stored entry whose position is in ks exactly once, and no other
HoldsExactly(b, ks) ==
    /\ {b[i] : i \in DOMAIN b} = {Board[k] : k \in ks}
    /\ Len(b) = Cardinality(ks)

PracticeOf(d) ==
    {k \in DOMAIN Board : Board[k].difficulty = d /\ Board[k].tournamentId = Undefined}

EntriesOf(tid) == {k \in DOMAIN Board : Board[k].tournamentId = tid}

\* C11: getLeaderboardByDifficulty(d) is exactly the stored entries of
\* difficulty d that carry no tournamentId, in descending order of score; no
\* entry with a tournamentId is in it.
C11_ByDifficulty ==
    \A d \in RankDifficulties :
        LET b == getLeaderboardByDifficulty(lsLeaderboard, d)
        IN  /\ HoldsExactly(b, PracticeOf(d))
            /\ Descending(b)
            /\ \A i \in DOMAIN b : b[i].tournamentId = Undefined

\* scores 100, 200, 150 submitted in that order for "easy" come back 200, 150, 100
C11_Witness ==
    LET b == getLeaderboardByDifficulty(lsLeaderboard, "easy")
    IN  /\ Len(b) = 3
        /\ <<b[1].score, b[2].score, b[3].score>> = <<200, 150, 100>>
        /\ <<b[1].id, b[2].id, b[3].id>> = <<2, 3, 1>>

SubmissionOrderOnTies(b) ==
    \A i, j \in DOMAIN b : (i < j /\ b[i].score = b[j].score) => b[i].id < b[j].id

\* C12: in getLeaderboardByDifficulty and in getTournamentLeaderboard, of two
\* entries with the same score the one submitted earlier comes first.
C12_StableTies ==
    /\ \A d \in RankDifficulties :
           SubmissionOrderOnTies(getLeaderboardByDifficulty(lsLeaderboard, d))
    /\ \A tid \in RankTournamentIds :
           SubmissionOrderOnTies(getTournamentLeaderboard(lsLeaderboard, tid))

\* two equal scores were submitted and a higher one after them: the re-sort
\* moved the third ahead and kept the first before the second
C12_Witness ==
    \E tid \in RankTournamentIds :
        LET b == getTournamentLeaderboard(lsLeaderboard, tid)
        IN  /\ Len(b) = 3
            /\ <<b[1].id, b[2].id, b[3].id>> = <<3, 1, 2>>
            /\ b[2].score = b[3].score

\* C13: getPlayerRank(w, d) is 0 when w has no practice entry of difficulty
\* d, and otherwise the position (from 1) of the first entry of
\* getLeaderboardByDifficulty(d) that is w's and has w's best score.
C13_RankOfBest ==
    \A w \in Wallets, d \in RankDifficulties :
        LET b == getLeaderboardByDifficulty(lsLeaderboard, d)
            mine == {i \in DOMAIN b : b[i].playerWallet = w}
            rank == getPlayerRank(lsLeaderboard, w, d)
        IN  IF mine = {} THEN rank = 0
            ELSE /\ rank \in mine
                 /\ \A i \in mine : b[i].score <= b[rank].score
                 /\ \A i \in mine : b[i].score = b[rank].score => rank <= i

\* C14: getPlayerBestScore(w, d) is the greatest score of w's entries of
\* difficulty d without a tournamentId, and 0 when there is none.
C14_BestScore ==
    \A w \in Wallets, d \in RankDifficulties :
        LET mine == {k \in PracticeOf(d) : Board[k].playerWallet = w}
            best == getPlayerBestScore(lsLeaderboard, w, d)
        IN  IF mine = {} THEN best = 0
            ELSE /\ \E k \in mine : Board[k].score = best
                 /\ \A k \in mine : Board[k].score <= best

\* a player's tournament score is above the player's best practice score
C14_Witness ==
    \E w \in Wallets, d \in RankDifficulties :
        /\ getPlayerBestScore(lsLeaderboard, w, d) = 150
        /\ \E k \in DOMAIN Board :
              /\ Board[k].playerWallet = w /\ Board[k].difficulty = d
              /\ Board[k].tournamentId # Undefined /\ Board[k].score = 200
        /\ \E k \in PracticeOf(d) : Board[k].playerWallet = w /\ Board[k].score = 100

\* C15: getTournamentLeaderboard(t) is exactly the stored entries whose
\* tournamentId is t, in descending order of score, and
\* getPlayerTournamentRank(w, t) is the position (from 1) of the first entry
\* of w in it, which is w's highest, or 0 when w has none.
C15_TournamentBoard ==
    \A tid \in RankTournamentIds :
        LET b == getTournamentLeaderboard(lsLeaderboard, tid)
        IN  /\ HoldsExactly(b, EntriesOf(tid))
            /\ Descending(b)
            /\ \A w \in Wallets :
                  LET mine == {i \in DOMAIN b : b[i].playerWallet = w}
                      rank == getPlayerTournamentRank(lsLeaderboard, w, tid)
                  IN  IF mine = {} THEN rank = 0
                      ELSE /\ rank \in mine
                           /\ \A i \in mine : rank <= i /\ b[i].score <= b[rank].score

\* a player with two scores in a tournament is ranked second, behind another
C15_Witness ==
    \E tid \in RankTournamentIds, w \in Wallets :
        LET b == getTournamentLeaderboard(lsLeaderboard, tid)
        IN  /\ Len(b) = 3
            /\ getPlayerTournamentRank(lsLeaderboard, w, tid) = 2
            /\ b[3].playerWallet = w
            /\ b[1].playerWallet # w

----------------------------------------------------------------------------
(* The game session *)

\* C27: for one round endGame calls addScore at most once, also when the
\* time-limit callback and the final-match callback both run; it calls it only
\* for a round that was won and had not ended before, with a connected wallet;
\* and it passes a tournamentId only when the round was started in tournament
\* mode.
C27_ScoreOncePerRound ==
    /\ session.saved <= 1
    /\ \A i \in DOMAIN session.lastSave :
         LET call == session.lastSave[i]
         IN  /\ call.won
             /\ ~call.finished
             /\ call.playerWallet # NoKey
             /\ (call.tournamentId # Undefined => call.roundMode)

\* a won tournament round whose score was submitted once although both
\* callbacks ran endGame
C27_Witness ==
    /\ session.saved = 1
    /\ session.fired = {"timer", "flip"}
    /\ session.lastSave # <<>>
    /\ session.lastSave[1].tournamentId # Undefined
    /\ Len(Board) = 1

\* C30: when the storage write inside addScore fails, the caller gets the
\* failure and no entry (endGame's catch reports that the score was not
\* saved), and the persisted entries are exactly what they were before the
\* call.
C30_FailedSaveKeepsEntries ==
    [][(/\ session.flip # <<>>
        /\ ~session.gameOverRef
        /\ session.flip[1].connected # NoKey
        /\ FlipTimeout(FALSE))
       => (/\ session'.toast = "failed"
           /\ lsLeaderboard' = lsLeaderboard
           /\ eCount' = eCount)]_vars

\* a round's score was not saved and the entry stored before is still there
C30_Witness ==
    /\ session.toast = "failed"
    /\ session.round = 2
    /\ Len(Board) = 1

----------------------------------------------------------------------------
(* Tabs sharing the store *)

\* C28: enterTournament calls made in different tabs for the same wallet and
\* tournament, no call being made for another wallet or tournament, can both
\* find the wallet not yet a participant and both pay; when two of them have
\* paid and returned the stored tournament holds the wallet at most once,
\* exactly once if either call returned true, and its prizePool holds one
\* entryFee per participant.
C28_PaidTwiceCreditedOnce ==
    \A c1, c2 \in DOMAIN calls :
        ( /\ c1 < c2
          /\ \A c \in DOMAIN calls :
                calls[c].wallet = calls[c1].wallet /\ calls[c].tid = calls[c1].tid
          /\ calls[c1].pc = "done" /\ calls[c2].pc = "done"
          /\ calls[c1].payment = "paid" /\ calls[c2].payment = "paid" )
        => /\ IsStored(calls[c1].tid)
           /\ LET t == TournamentOf(calls[c1].tid)
              IN  /\ Occurrences(t, calls[c1].wallet) <= 1
                  /\ (calls[c1].result \/ calls[c2].result)
                        => Occurrences(t, calls[c1].wallet) = 1
                  /\ t.prizePool = t.entryFee * Len(t.participants)

\* both tabs paid and both wrote the collection; the wallet is credited once
C28_Witness ==
    /\ Len(calls) = 2
    /\ calls[1].wallet = calls[2].wallet /\ calls[1].tid = calls[2].tid
    /\ calls[1].pc = "done" /\ calls[2].pc = "done"
    /\ calls[1].payment = "paid" /\ calls[2].payment = "paid"
    /\ calls[1].wrote /\ calls[2].wrote
    /\ calls[1].result /\ calls[2].result
    /\ Len(TournamentOf(calls[1].tid).participants) = 1
    /\ TournamentOf(calls[1].tid).prizePool = calls[1].fee

----------------------------------------------------------------------------
(* Reading a damaged store *)

\* C29: while the text stored under a key cannot be parsed, every read of that
\* key returns its neutral default: getLeaderboard, getLeaderboardByDifficulty
\* and getTournamentLeaderboard the empty sequence, getPlayerBestScore,
\* getPlayerRank and getPlayerTournamentRank 0, getTournaments the empty
\* sequence and getActiveTournamentByDifficulty null.
C29_ReadsDegrade ==
    /\ lsLeaderboard.kind = "corrupt" =>
          /\ getLeaderboard(lsLeaderboard) = <<>>
          /\ \A d \in Difficulties, w \in Wallets, tid \in TournamentIds :
                /\ getLeaderboardByDifficulty(lsLeaderboard, d) = <<>>
                /\ getPlayerBestScore(lsLeaderboard, w, d) = 0
                /\ getPlayerRank(lsLeaderboard, w, d) = 0
                /\ getTournamentLeaderboard(lsLeaderboard, tid) = <<>>
                /\ getPlayerTournamentRank(lsLeaderboard, w, tid) = 0
    /\ lsTournaments.kind = "corrupt" =>
          /\ getTournaments(lsTournaments) = <<>>
          /\ \A d \in Difficulties :
                getActiveTournamentByDifficulty(lsTournaments, d) = Null

\* both texts are damaged; they held a score and an active tournament
C29_Witness ==
    /\ lsLeaderboard.kind = "corrupt"
    /\ lsTournaments.kind = "corrupt"
    /\ \E i \in DOMAIN lsLeaderboard.value : lsLeaderboard.value[i].score > 0
    /\ \E i \in DOMAIN lsTournaments.value : lsTournaments.value[i].status = "active"

----------------------------------------------------------------------------
(* Tournament entry in unnamed/part_005 *)

\* C31: in the enterTournament of unnamed/part_005, when the payment fails --
\* makePayment rejects, or resolves to false -- the call returns false and the
\* store is left as it was: the wallet is not added to participants and
\* prizePool is not credited.
C31_FailedPaymentNoEntry ==
    [][\A c \in DOMAIN calls, o \in PaymentOutcomes \ {"paid"}, ok \in BOOLEAN :
          PaymentSettlesPart005(c, o, ok)
          => /\ calls'[c].result = FALSE
             /\ lsTournaments' = lsTournaments
      ]_vars

----------------------------------------------------------------------------
(* The prize pool and the participants *)

C33_JoinsOnlyActive ==
    [][\A i \in DOMAIN Stored, j \in DOMAIN Stored' :
          ( /\ Stored[i].id = Stored'[j].id
            /\ \/ Stored'[j].participants # Stored[i].participants
               \/ Stored'[j].prizePool # Stored[i].prizePool )
          => Stored[i].status = "active"
      ]_vars

\* C34: enterTournament goes on to charge a wallet, and a wallet is added to
\* a tournament, only at a time inside the tournament's window, startTime <=
\* now < endTime, whether or not the statuses have been reconciled since.
C34_EntryInsideWindow ==
    [][/\ ( /\ Len(calls') = Len(calls) + 1
            /\ LastCall'.pc = "paying" )
          => LET t == TournamentOf(LastCall'.tid)
             IN  TimeOf(t.startTime) <= now /\ now < TimeOf(t.endTime)
       /\ \A i \in DOMAIN Stored, j \in DOMAIN Stored' :
             ( /\ Stored[i].id = Stored'[j].id
               /\ Stored'[j].participants # Stored[i].participants )
             => ( /\ TimeOf(Stored[i].startTime) <= now
                  /\ now < TimeOf(Stored[i].endTime) )
      ]_vars

\* C35: once a stored tournament has status completed, no later addScore,
\* enterTournament, checkAndUpdateTournaments or endTournament changes its
\* winners.
C35_WinnersFinal ==
    [][\A i \in DOMAIN Stored, j \in DOMAIN Stored' :
          ( /\ Stored[i].id = Stored'[j].id
            /\ Stored[i].status = "completed" )
          => Stored'[j].winners = Stored[i].winners
      ]_vars

----------------------------------------------------------------------------
(* Scores and tournament entry on the game page *)

\* C36: every stored entry that carries a tournamentId t was submitted by a
\* wallet that is in the participants of the stored tournament t.
C36_ScoresOfParticipants ==
    \A k \in DOMAIN Board :
        Board[k].tournamentId # Undefined
        => /\ IsStored(Board[k].tournamentId)
           /\ Includes(TournamentOf(Board[k].tournamentId).participants,
                       Board[k].playerWallet)

----------------------------------------------------------------------------
(* Claims of the presale server *)

\* C37: POST /claim succeeds only if the wallet has purchased a positive total
\* and none of its purchases is marked claimed; it then marks all of that
\* wallet's purchases claimed and appends exactly one claim record; a rejected
\* POST /claim, and every POST /claim of a wallet that has a claim record,
\* changes neither array; and a POST /claim carrying its required fields
\* succeeds exactly when GET /can-claim of that wallet reports canClaim true.
C37_ClaimedAtMostOnce ==
    [][ ( /\ server'.response.route = "claim"
          /\ server'.response # server.response )
        => LET wallet == server'.response.wallet
               accepted == server'.response.status = 200
               before == server.purchases
               after == server'.purchases
           IN  /\ accepted
                  => /\ Greater(totalTokens(before, wallet), Num(0))
                     /\ ~anyClaimed(before, wallet)
                     /\ \A i \in userPurchases(after, wallet) : after[i].claimed
                     /\ Len(server'.claims) = Len(server.claims) + 1
                     /\ server'.claims[Len(server'.claims)].wallet = wallet
               /\ ~accepted
                  => /\ after = before
                     /\ server'.claims = server.claims
               /\ (\E k \in DOMAIN server.claims : server.claims[k].wallet = wallet)
                  => ~accepted
               /\ accepted => canClaimBody(before, wallet).canClaim
      ]_vars

----------------------------------------------------------------------------
(* Claims of the standalone game *)

\* The board is locked on a pending mismatch: two different cards of
\* different images, both face up, with a flip-back timeout pending
PendingMismatch(g) ==
    /\ g.firstCardIndex # NullIndex
    /\ g.secondCardIndex # NullIndex
    /\ g.firstCardIndex # g.secondCardIndex
    /\ g.cards[g.firstCardIndex].image # g.cards[g.secondCardIndex].image
    /\ {g.firstCardIndex, g.secondCardIndex} \subseteq g.flipped
    /\ g.flipBacks > 0

\* C38: a face-up card is matched, or the current first selection, or one of
\* the two cards of the pending mismatch; the board is locked exactly while a
\* mismatched pair is pending, and once locked it stays locked, with the same
\* cards face up, until a step that turns exactly that pair face down (a
\* flip-back timeout) or replaces the board (Start).
C38_FaceUpAccounted ==
    /\ [](\A i \in game.flipped :
             \/ game.cards[i].matched
             \/ i = game.firstCardIndex
             \/ (game.lockBoard /\ i = game.secondCardIndex))
    /\ [](game.lockBoard <=> game.secondCardIndex # NullIndex)
    /\ [](game.lockBoard => PendingMismatch(game))
    /\ [][ game.lockBoard
           => \/ /\ game'.lockBoard
                 /\ game'.flipped = game.flipped
                 /\ game'.firstCardIndex = game.firstCardIndex
                 /\ game'.secondCardIndex = game.secondCardIndex
              \/ /\ ~game'.lockBoard
                 /\ game'.games = game.games
                 /\ game'.flipBacks = game.flipBacks - 1
                 /\ game'.flipped =
                        game.flipped \ {game.firstCardIndex, game.secondCardIndex}
              \/ /\ ~game'.lockBoard
                 /\ game'.games = game.games + 1
                 /\ game'.flipped = {}
       ]_vars

\* A game was restarted while a flip-back timeout of the game before was
\* pending, a mismatch of the new game was flipped back by that timeout, and
\* a card selected after it is face up while the new game's own timeout is
\* still pending
C38_Witness ==
    /\ game.games = 2
    /\ game.moves >= 1
    /\ game.matches = 0
    /\ game.flipBacks = 1
    /\ ~game.lockBoard
    /\ game.firstCardIndex # NullIndex
    /\ game.firstCardIndex \in game.flipped

\* C39: within a game, moves increases by exactly one on a step that turns a
\* second card face up and on no other step; matches never exceeds
\* totalPairs; endGame runs on exactly the step on which matches becomes
\* totalPairs, so at most once in a game, and on that step the stored scores
\* gain exactly one entry, that of this game, unless the write throws.
C39_MovesMatchesEndOnce ==
    /\ [](game.matches <= game.totalPairs)
    /\ [](game.ended <= 1)
    /\ [](game.games > 0 => (game.ended = 1 <=> game.matches = game.totalPairs))
    /\ [][ game'.games = game.games
           => /\ game'.moves =
                    IF game.firstCardIndex # NullIndex
                       /\ game'.flipped \ game.flipped # {}
                    THEN game.moves + 1 ELSE game.moves
              /\ game'.ended =
                    IF game'.matches = game'.totalPairs
                       /\ game.matches # game.totalPairs
                    THEN game.ended + 1 ELSE game.ended
              /\ IF game'.ended = game.ended
                 THEN game'.scores = game.scores
                 ELSE \/ game'.scores = game.scores
                      \/ /\ Len(parseScores(game'.scores))
                              = Len(parseScores(game.scores)) + 1
                         /\ LET entry == parseScores(game'.scores)[
                                             Len(parseScores(game'.scores))]
                            IN  /\ entry.pairs = game'.totalPairs
                                /\ entry.moves = game'.moves
       ]_vars

\* A game of two pairs was finished in three pair attempts, one of them a
\* mismatch, and its one score entry is stored
C39_Witness ==
    /\ game.totalPairs = 2
    /\ game.matches = 2
    /\ game.moves = 3
    /\ game.ended = 1
    /\ Len(parseScores(game.scores)) = 1
    /\ parseScores(game.scores)[1].moves = 3

====
